---------------------------- MODULE Spec2Model ----------------------------
(***************************************************************************)
(* A model of the ReLeaf backend core: the cost & funding engine           *)
(* (services/funding.py), the raster sampler (services/satellite.py) and   *)
(* the cooling simulator (services/analysis.py).                           *)
(*                                                                         *)
(* Each subsystem has its own specification over the shared variables:     *)
(*   SpecFunding  - FundingService.calculate_funding_mix, statement by     *)
(*                  statement;                                             *)
(*   SpecSampler  - SatelliteService (load, get_temperature_at,            *)
(*                  get_bounds, get_heatmap_grid) and its environment;     *)
(*   SpecSim      - AnalysisService.simulate_cooling(_v2) over the sampler;*)
(*   SpecCaches   - the memoized scans get_hotspots and get_suggestions;   *)
(*   SpecConvert  - SatelliteService._convert_to_celsius on its own;       *)
(*   SpecCosts    - FundingService.get_realistic_costs;                    *)
(*   SpecRace     - two callers inside get_hotspots / get_suggestions;     *)
(*   SpecValidation - ValidationService.validate_intervention, with calls  *)
(*                  suspended at their lookup.                             *)
(* A specification leaves the variables of the other subsystems alone.     *)
(*                                                                         *)
(* Numbers.  Python floats are modelled by exact decimal fixed point:      *)
(* money is a pair (whole dollars, millionths of a dollar), temperatures   *)
(* are tenths of a degree.  round(x, k) is modelled on the exact value; at *)
(* an exact decimal tie the binary float lies just above or just below the *)
(* tie, so the model lets round() go either way there.                     *)
(***************************************************************************)
EXTENDS Integers, Sequences, FiniteSets, TLC

VARIABLES
    \* ---- FundingService.calculate_funding_mix (funding.py:147-219) ----
    f_pc,                   \* position inside calculate_funding_mix
    total_cost,             \* argument total_cost
    co2_offset_kg,          \* argument co2_offset_kg (kg)
    remaining,              \* local `remaining`
    funding_breakdown,      \* local list `funding_breakdown`
    municipal_contribution, \* local `municipal_contribution` (None until step 3)
    annual_payment,         \* local `annual_payment`: <<>> while unbound
    f_result,               \* the returned dict: <<>> until the call returns
    \* ---- SatelliteService singleton and its environment (satellite.py) ----
    sat,                    \* satellite_service: dataset, data, transformer,
                            \*   loaded (_loaded), fallback_mode (_fallback_mode)
    rasterio_available,     \* RASTERIO_AVAILABLE, fixed at import
    tiff_state,             \* the file at HEATMAP_TIFF_PATH: ok, missing, or how it fails
    tiff_file,              \* that file: its geo-transform and band 1 (one row of pixels)
    s_op,                   \* the sampler operation that returned last
    s_ret,                  \* what it returned
    \* ---- AnalysisService.simulate_cooling / simulate_cooling_v2 (analysis.py) ----
    sim_pc,                 \* position inside the running simulation
    sim_item,               \* the loop variable `item` / `tree`
    sim_i,                  \* items processed so far (len(impacts))
    total_cooling,          \* local `total_cooling`, tenths of a degree
    tree_count,             \* local `tree_count`
    last_impact,            \* impacts[-1]: <<>> while impacts is empty
    sim_result,             \* the returned dict: <<>> until the call returns
    \* ---- AnalysisService caches (analysis.py:97-100) ----
    hotspots_cache,         \* _hotspots_cache: <<>> is None, <<list>> once set
    suggestions_cache,      \* _suggestions_cache, likewise
    a_op,                   \* the cached operation that returned last
    a_ret,                  \* the list it returned
    a_scanned,              \* whether that call scanned the grid
    \* ---- SatelliteService._convert_to_celsius on its own (satellite.py:169-184) ----
    c_raw,                  \* the argument raw_value, hundredths
    c_celsius,              \* the value returned for it: <<>> before the call
    \* ---- FundingService.get_realistic_costs (funding.py:74-145) ----
    g_interventions,        \* the argument interventions
    g_region,               \* the argument region
    g_result,               \* the dict returned: <<>> before the call
    \* ---- concurrent first calls of get_hotspots / get_suggestions ----
    r_kind,                 \* the method both callers call
    r_round,                \* which way round() goes at a tie in this process
    r_pc,                   \* each caller's position inside the method
    r_local,                \* each caller's local list `hotspots` / `suggestions`
    r_ret,                  \* what each caller was returned: <<>> before the return
    \* ---- ValidationService.validate_intervention (validation.py:187-212) ----
    v_cache,                \* validation_service.cache: a function on the stored keys
    v_pc,                   \* each call's position inside validate_intervention
    v_args,                 \* each call's arguments: <<>> before the call
    v_ret,                  \* what each call returned: <<>> before the return
    v_queries               \* requests sent to the Overpass API so far

fvars == <<f_pc, total_cost, co2_offset_kg, remaining, funding_breakdown,
           municipal_contribution, annual_payment, f_result>>

svars == <<sat, rasterio_available, tiff_state, tiff_file, s_op, s_ret>>

mvars == <<sim_pc, sim_item, sim_i, total_cooling, tree_count, last_impact, sim_result>>

cvars == <<hotspots_cache, suggestions_cache, a_op, a_ret, a_scanned>>

kvars == <<c_raw, c_celsius>>

gvars == <<g_interventions, g_region, g_result>>

rvars == <<r_kind, r_round, r_pc, r_local, r_ret>>

vvars == <<v_cache, v_pc, v_args, v_ret, v_queries>>

vars == <<fvars, svars, mvars, cvars, kvars, gvars, rvars, vvars>>

\* the callers that may be inside a service method at the same time
Callers == {1, 2}

(***************************************************************************)
(* Option values: <<>> is None / unbound, <<x>> holds x.                   *)
(***************************************************************************)
None == <<>>
Some(x) == <<x>>
IsSome(o) == o # <<>>
The(o) == o[1]

\* satellite.py:23-28: SatelliteService.__init__
SatNew == [dataset |-> None, data |-> None, transformer |-> None,
           loaded |-> FALSE, fallback_mode |-> FALSE]

\* no file at HEATMAP_TIFF_PATH
NoFile == [left |-> 0, top |-> 0, span |-> 1, pixels |-> <<>>]

\* what the funding engine never touches
NotFunding == <<svars, mvars, cvars, kvars, gvars, rvars, vvars>>

(***************************************************************************)
(* Money: d whole dollars plus f millionths, 0 <= f < Scale; the value is  *)
(* d + f / Scale (d may be negative).                                      *)
(***************************************************************************)
Scale == 1000 * 1000
CentUnits == Scale \div 100

Norm(d, f) == [d |-> d + (f \div Scale), f |-> f % Scale]
Dollars(d) == [d |-> d, f |-> 0]
Cents(c) == Norm(0, c * CentUnits)
Zero == Dollars(0)

MAdd(a, b) == Norm(a.d + b.d, a.f + b.f)
MSub(a, b) == Norm(a.d - b.d, a.f - b.f)
MLt(a, b) == a.d < b.d \/ (a.d = b.d /\ a.f < b.f)
MLe(a, b) == ~MLt(b, a)
MMin(a, b) == IF MLt(b, a) THEN b ELSE a
IsCents(a) == a.f % CentUnits = 0

\* a * num / den for a >= 0 and den a divisor of Scale, truncated to a millionth
MScale(a, num, den) ==
    LET dn == a.d * num
    IN  Norm(dn \div den, (dn % den) * (Scale \div den) + (a.f * num) \div den)

\* round(a, 2); `up` decides an exact tie (see the header)
Round2(a, up) ==
    LET q == a.f \div CentUnits
        r == a.f % CentUnits
        c == IF 2 * r > CentUnits \/ (2 * r = CentUnits /\ up) THEN q + 1 ELSE q
    IN  Norm(a.d, c * CentUnits)


(***************************************************************************)
(* FUNDING_SOURCES (funding.py:33-62); rates in percent.                   *)
(***************************************************************************)
MunicipalMatchRatePct == 50
MunicipalMaxAmount == 500000
FederalMatchRatePct == 40
FederalMaxAmount == 1000000
CarbonPricePerTonne == 35
BondInterestRatePct == 3
BondTermYears == 10

(***************************************************************************)
(* Inputs of calculate_funding_mix: costs from nothing and a few cents up  *)
(* to amounts on which the municipal cap (1.5M) and both caps (3M) bind;   *)
(* 847.50 is what get_realistic_costs gives for one maple in Vancouver.    *)
(* co2_offset_kg as calculate_roi derives it (22 kg per tree) and larger.  *)
(***************************************************************************)
TotalCostChoices ==
    { Zero, Cents(1), Cents(9), Cents(39), Dollars(100), Cents(84750),
      Dollars(100000), Dollars(1500000), Dollars(3000000) }
Co2Choices == {0, 1, 22, 1000, 2000}

\* (1 + rate) ** years, in millionths
RECURSIVE OnePlusRatePow(_, _)
OnePlusRatePow(rate_pct, years) ==
    IF years = 0 THEN Scale
    ELSE (OnePlusRatePow(rate_pct, years - 1) * (100 + rate_pct)) \div 100

\* rate * (1 + rate) ** years / ((1 + rate) ** years - 1), in ten-thousandths
AmortizationFactor(rate_pct, years) ==
    LET p == OnePlusRatePow(rate_pct, years)
    IN  (rate_pct * p * 100) \div (p - Scale)

\* funding.py:221-225
CalculateBondPayment(principal, rate_pct, years) ==
    IF rate_pct = 0 THEN MScale(principal, 1, years)
    ELSE MScale(principal, AmortizationFactor(rate_pct, years), 10000)

Entry(source, type, amount) == [source |-> source, type |-> type, amount |-> amount]

FundingIdle == f_pc \in {"idle", "returned", "raised"}

\* funding.py:147-155: the call; locals start out
FundingCall ==
    /\ FundingIdle
    /\ \E tc \in TotalCostChoices, co2 \in Co2Choices :
          /\ total_cost' = tc
          /\ co2_offset_kg' = co2
          /\ remaining' = tc
    /\ funding_breakdown' = <<>>
    /\ municipal_contribution' = None
    /\ annual_payment' = None
    /\ f_result' = None
    /\ f_pc' = "carbon"
    /\ UNCHANGED NotFunding

\* funding.py:157-166: 1. carbon credits
CarbonStep ==
    /\ f_pc = "carbon"
    /\ \E up \in BOOLEAN :
         LET carbon_revenue == MScale(Dollars(co2_offset_kg), CarbonPricePerTonne, 1000)
         IN  /\ funding_breakdown' = Append(funding_breakdown,
                    Entry("Carbon Offset Credits", "revenue", Round2(carbon_revenue, up)))
             /\ remaining' = MSub(remaining, carbon_revenue)
    /\ f_pc' = "grant"
    /\ UNCHANGED <<total_cost, co2_offset_kg, municipal_contribution, annual_payment, f_result>>
    /\ UNCHANGED NotFunding

\* funding.py:168-180: 2. federal grant
GrantStep ==
    /\ f_pc = "grant"
    /\ \E up \in BOOLEAN :
         LET federal_match == MMin(MScale(total_cost, FederalMatchRatePct, 100),
                                   Dollars(FederalMaxAmount))
         IN  /\ funding_breakdown' = Append(funding_breakdown,
                    Entry("Federal Infrastructure Grant", "grant", Round2(federal_match, up)))
             /\ remaining' = MSub(remaining, federal_match)
    /\ f_pc' = "municipal"
    /\ UNCHANGED <<total_cost, co2_offset_kg, municipal_contribution, annual_payment, f_result>>
    /\ UNCHANGED NotFunding

\* the match without `remaining` as the third argument of min
MunicipalAmountUncapped(tc, rem) ==
    MMin(MScale(tc, MunicipalMatchRatePct, 100), Dollars(MunicipalMaxAmount))

\* funding.py:184-188: min(total_cost * match_rate, max_amount, remaining)
MunicipalAmount(tc, rem) ==
    MMin(MMin(MScale(tc, MunicipalMatchRatePct, 100), Dollars(MunicipalMaxAmount)), rem)

\* funding.py:182-195: 3. municipal match
MunicipalStep ==
    /\ f_pc = "municipal"
    /\ \E up \in BOOLEAN :
         LET m == MunicipalAmount(total_cost, remaining)
         IN  /\ municipal_contribution' = Some(m)
             /\ funding_breakdown' = Append(funding_breakdown,
                    Entry("Municipal Climate Action Fund", "budget", Round2(m, up)))
             /\ remaining' = MSub(remaining, m)
    /\ f_pc' = "bonds"
    /\ UNCHANGED <<total_cost, co2_offset_kg, annual_payment, f_result>>
    /\ UNCHANGED NotFunding

\* funding.py:197-211: 4. green bonds for the remainder, only if remaining > 0
BondStep ==
    /\ f_pc = "bonds"
    /\ IF MLt(Zero, remaining)
       THEN \E up \in BOOLEAN :
              /\ annual_payment' = Some(CalculateBondPayment(remaining,
                                            BondInterestRatePct, BondTermYears))
              /\ funding_breakdown' = Append(funding_breakdown,
                     Entry("Municipal Green Bonds", "debt", Round2(remaining, up)))
              /\ remaining' = Zero
       ELSE UNCHANGED <<annual_payment, funding_breakdown, remaining>>
    /\ f_pc' = "return"
    /\ UNCHANGED <<total_cost, co2_offset_kg, municipal_contribution, f_result>>
    /\ UNCHANGED NotFunding

\* (total_cost - remaining) / total_cost in thousandths, for 0 <= remaining <= total_cost;
\* above 2000 dollars the quotient is taken on whole dollars
RatioPerMille(tc, rem) ==
    LET a == MSub(tc, rem)
    IN  IF a = tc THEN 1000
        ELSE IF tc.d < 2000
             THEN ((a.d * 1000 + a.f \div 1000) * 1000) \div (tc.d * 1000 + tc.f \div 1000)
             ELSE a.d \div (tc.d \div 1000)

\* funding.py:213-219: the return statement.  Reading annual_payment while it is
\* unbound (no bond was issued and remaining == 0) raises UnboundLocalError.
ReturnStep ==
    /\ f_pc = "return"
    /\ IF remaining = Zero /\ ~IsSome(annual_payment)
       THEN /\ f_pc' = "raised"
            /\ f_result' = None
       ELSE /\ f_pc' = "returned"
            /\ \E u1 \in BOOLEAN, u2 \in BOOLEAN, u3 \in BOOLEAN :
                 f_result' = Some([
                    total_cost |-> Round2(total_cost, u1),
                    funding_sources |-> funding_breakdown,
                    net_city_cost |->
                        Round2(MAdd(The(municipal_contribution),
                                    IF MLt(Zero, remaining) THEN remaining ELSE Zero), u2),
                    debt_service_annual |->
                        Round2(IF remaining = Zero THEN The(annual_payment) ELSE Zero, u3),
                    funding_ratio |->
                        IF MLt(Zero, total_cost) THEN RatioPerMille(total_cost, remaining)
                        ELSE 0 ])
    /\ UNCHANGED <<total_cost, co2_offset_kg, remaining, funding_breakdown,
                   municipal_contribution, annual_payment>>
    /\ UNCHANGED NotFunding

InitFunding ==
    /\ f_pc = "idle"
    /\ total_cost = Zero
    /\ co2_offset_kg = 0
    /\ remaining = Zero
    /\ funding_breakdown = <<>>
    /\ municipal_contribution = None
    /\ annual_payment = None
    /\ f_result = None
    /\ sat = SatNew
    /\ rasterio_available = TRUE
    /\ tiff_state = "missing"
    /\ tiff_file = NoFile
    /\ s_op = "none"
    /\ s_ret = None
    /\ sim_pc = "idle"
    /\ sim_item = None
    /\ sim_i = 0
    /\ total_cooling = 0
    /\ tree_count = 0
    /\ last_impact = None
    /\ sim_result = None
    /\ hotspots_cache = None
    /\ suggestions_cache = None
    /\ a_op = "none"
    /\ a_ret = <<>>
    /\ a_scanned = FALSE
    /\ c_raw = 0
    /\ c_celsius = None
    /\ g_interventions = <<>>
    /\ g_region = "vancouver"
    /\ g_result = None
    /\ r_kind = "get_hotspots"
    /\ r_round = [up |-> FALSE, cup |-> FALSE]
    /\ r_pc = [t \in Callers |-> "idle"]
    /\ r_local = [t \in Callers |-> <<>>]
    /\ r_ret = [t \in Callers |-> None]
    /\ v_cache = <<>>
    /\ v_pc = [t \in Callers |-> "idle"]
    /\ v_args = [t \in Callers |-> None]
    /\ v_ret = [t \in Callers |-> None]
    /\ v_queries = 0

NextFunding ==
    \/ FundingCall
    \/ CarbonStep
    \/ GrantStep
    \/ MunicipalStep
    \/ BondStep
    \/ ReturnStep

SpecFunding == InitFunding /\ [][NextFunding]_vars

(***************************************************************************)
(* Claims on calculate_funding_mix (checked under SpecFunding).            *)
(***************************************************************************)
FundingDone == f_pc \in {"returned", "raised"}

RECURSIVE SumAmounts(_, _)
SumAmounts(entries, types) ==
    IF entries = <<>> THEN Zero
    ELSE LET rest == SumAmounts(Tail(entries), types)
         IN  IF Head(entries).type \in types THEN MAdd(Head(entries).amount, rest)
             ELSE rest

DebtEntries(entries) == SelectSeq(entries, LAMBDA e : e.type = "debt")

\* the need left after the carbon, grant and municipal steps, from the inputs
NeedAfterMunicipal(tc, co2) ==
    LET afterGrant ==
            MSub(MSub(tc, MScale(Dollars(co2), CarbonPricePerTonne, 1000)),
                 MMin(MScale(tc, FederalMatchRatePct, 100), Dollars(FederalMaxAmount)))
    IN  MSub(afterGrant, MunicipalAmount(tc, afterGrant))

\* C2: calculate_funding_mix(0, 0) returns (does not raise) a result in which
\* every source amount, net_city_cost, debt_service_annual and funding_ratio are 0.
C2_ZeroCallReturnsAllZero ==
    (FundingDone /\ total_cost = Zero /\ co2_offset_kg = 0) =>
        /\ f_pc = "returned"
        /\ \A i \in DOMAIN The(f_result).funding_sources :
              The(f_result).funding_sources[i].amount = Zero
        /\ The(f_result).net_city_cost = Zero
        /\ The(f_result).debt_service_annual = Zero
        /\ The(f_result).funding_ratio = 0

\* C3: every call returns, and either the need left after the carbon, grant and
\* municipal steps is <= 0 and the result has no debt entry and
\* debt_service_annual = 0, or it is > 0 and the result has exactly one debt entry
\* whose amount is that remainder (to the cent) and debt_service_annual > 0.
C3_CoveredOrPositiveDebt ==
    FundingDone =>
        /\ f_pc = "returned"
        /\ LET need == NeedAfterMunicipal(total_cost, co2_offset_kg)
               debt == DebtEntries(The(f_result).funding_sources)
           IN  IF MLe(need, Zero)
               THEN /\ debt = <<>>
                    /\ The(f_result).debt_service_annual = Zero
               ELSE /\ Len(debt) = 1
                    /\ debt[1].amount \in {Round2(need, FALSE), Round2(need, TRUE)}
                    /\ MLt(Zero, The(f_result).debt_service_annual)

\* C4: every entry of the funding_sources list built by calculate_funding_mix has
\* amount >= 0, the municipal entry included when carbon revenue plus the federal
\* grant already exceed total_cost.
C4_AmountsNonNegative ==
    \A i \in DOMAIN funding_breakdown : MLe(Zero, funding_breakdown[i].amount)

\* C5: the amounts of the non-debt entries returned by calculate_funding_mix
\* (carbon revenue + federal grant + municipal match) never sum to more than
\* total_cost.
C5_NonDebtWithinTotalCost ==
    IsSome(f_result) =>
        MLe(SumAmounts(The(f_result).funding_sources, {"revenue", "grant", "budget"}),
            total_cost)

\* the types of the entries in the order of the waterfall
WaterfallOrder == <<"revenue", "grant", "budget", "debt">>

\* the amount an entry carries for the quantity x: x to the cent
ToTheCent(x) == {Round2(x, FALSE), Round2(x, TRUE)}

\* C18: the entries of funding_sources come in the order revenue, grant, budget
\* and then at most one debt entry, at every step of the waterfall and in the
\* returned list; to the cent, the revenue entry is co2_offset_kg / 1000 x 35 in
\* full, the grant entry is min(0.4 x total_cost, 1,000,000) of the original
\* total_cost, and the budget entry is min(0.5 x total_cost, 500,000, the need
\* left after carbon and grant).
C18_WaterfallOrder ==
    LET carbon == MScale(Dollars(co2_offset_kg), 35, 1000)
        grant == MMin(MScale(total_cost, 40, 100), Dollars(1000000))
        need == MSub(MSub(total_cost, carbon), grant)
        half == MScale(total_cost, 50, 100)
        municipal == IF MLt(need, half) /\ MLt(need, Dollars(500000)) THEN need
                     ELSE IF MLt(half, Dollars(500000)) THEN half
                     ELSE Dollars(500000)
    IN  /\ Len(funding_breakdown) <= 4
        /\ \A i \in DOMAIN funding_breakdown : funding_breakdown[i].type = WaterfallOrder[i]
        /\ Len(funding_breakdown) >= 1 => funding_breakdown[1].amount \in ToTheCent(carbon)
        /\ Len(funding_breakdown) >= 2 => funding_breakdown[2].amount \in ToTheCent(grant)
        /\ Len(funding_breakdown) >= 3 => funding_breakdown[3].amount \in ToTheCent(municipal)
        /\ f_pc = "returned" =>
               /\ The(f_result).funding_sources = funding_breakdown
               /\ Len(funding_breakdown) \in {3, 4}

\* a returned list of four entries whose grant and municipal match are both at
\* their caps
C18_FourEntriesReturned ==
    /\ f_pc = "returned"
    /\ Len(The(f_result).funding_sources) = 4
    /\ The(f_result).funding_sources[2].amount = Dollars(1000000)
    /\ The(f_result).funding_sources[3].amount = Dollars(500000)
    /\ The(f_result).funding_sources[4].type = "debt"

\* C19: for every total_cost >= 0 and co2_offset_kg >= 0 the call returns a
\* funding_ratio equal to (total_cost - final remaining need) / total_cost, which
\* lies in [0, 1] and is 0 when total_cost is 0.
C19_RatioOfCoveredCost ==
    FundingDone =>
        /\ f_pc = "returned"
        /\ 0 <= The(f_result).funding_ratio
        /\ The(f_result).funding_ratio <= 1000
        /\ total_cost = Zero => The(f_result).funding_ratio = 0
        /\ MLt(Zero, total_cost) =>
               The(f_result).funding_ratio = RatioPerMille(total_cost, remaining)

\* C27: whenever calculate_funding_mix returns for total_cost > 0, the amounts
\* of all entries of funding_sources, the debt entry included, sum to total_cost
\* exactly, funding_ratio is 1 and net_city_cost is the municipal contribution.
C27_EntriesSumToTotalCost ==
    (f_pc = "returned" /\ MLt(Zero, total_cost)) =>
        /\ SumAmounts(The(f_result).funding_sources, {"revenue", "grant", "budget", "debt"})
               = total_cost
        /\ The(f_result).funding_ratio = 1000
        /\ The(f_result).net_city_cost \in ToTheCent(The(municipal_contribution))

(***************************************************************************)
(* The raster sampler, services/satellite.py.                              *)
(*                                                                         *)
(* Coordinates are offsets from (DEFAULT_LAT, DEFAULT_LON) in units of     *)
(* 1/30000 degree (so that the 10 x 10 and 15 x 15 scan grids of the       *)
(* analysis service fall on whole units): x along longitude, y along       *)
(* latitude.  The raster is in a geographic CRS, so the transformer maps a *)
(* coordinate to itself.  Raw pixel values are finite numbers in           *)
(* hundredths of their unit, the unrounded synthetic temperature is in     *)
(* thousandths; temperature_c, rounded to one decimal by the code, is in   *)
(* tenths.                                                                 *)
(***************************************************************************)
Center == [x |-> 0, y |-> 0]
West == [x |-> -150, y |-> 0]
East == [x |-> 150, y |-> 0]
\* lat = 0, lon = 0: what item.get("lat", 0), item.get("lon", 0) default to
Origin == [x |-> 3693621, y |-> -1478481]
CoordChoices == {Center, West, East, Origin}

\* files that may sit at HEATMAP_TIFF_PATH: one row of pixels each, the pixel
\* edge at x = 0 so that Center falls into column 1 and West into column 0
FileHot == [left |-> -300, top |-> 150, span |-> 300, pixels |-> <<4700, 3150500>>]
FileNarrow == [left |-> -300, top |-> 150, span |-> 300, pixels |-> <<2500>>]
FileOdd == [left |-> -300, top |-> 150, span |-> 300, pixels |-> <<-999900, 10000>>]
FileKelvin == [left |-> -300, top |-> 150, span |-> 300, pixels |-> <<39000, 3150000>>]
FileWide == [left |-> -300, top |-> 150, span |-> 300,
             pixels |-> <<3290, 3300, 3350, 3990, 4000, 4590, 4600, 5230>>]
FileCool == [left |-> -300, top |-> 150, span |-> 300, pixels |-> <<3290, 3300, 3350>>]
RasterFiles == {FileHot, FileNarrow, FileOdd, FileKelvin, FileWide, FileCool}

\* ok: opens and reads; missing: os.path.exists is false; bad_open: rasterio.open
\* raises; bad_read: dataset.read(1) raises; bad_crs: Transformer.from_crs raises
TiffStates == {"ok", "missing", "bad_open", "bad_read", "bad_crs"}

Env == [available |-> rasterio_available, state |-> tiff_state, file |-> tiff_file]

\* round(h / 100, 1) for h in hundredths, in tenths; `up` decides an exact tie
Round1(h, up) ==
    LET q == h \div 10
        r == h % 10
    IN  IF r > 5 \/ (r = 5 /\ up) THEN q + 1 ELSE q

\* round(x / d) for d > 0; `up` decides an exact tie
RoundDiv(x, d, up) ==
    LET q == x \div d
        r == x % d
    IN  IF 2 * r > d \/ (2 * r = d /\ up) THEN q + 1 ELSE q

\* the directions round(x / d) can take: both at an exact tie, else the nearest
Ties(x, d) == IF 2 * (x % d) = d THEN BOOLEAN ELSE {FALSE}

\* the heuristic without its Kelvin * 100 branch
ConvertToCelsiusUnscaled(raw_value) ==
    IF -5000 < raw_value /\ raw_value < 8000 THEN raw_value
    ELSE IF 20000 < raw_value /\ raw_value < 40000 THEN raw_value - 27315
    ELSE raw_value

\* the classification with the end points counted into their range
ConvertToCelsiusInclusive(raw_value) ==
    IF -5000 <= raw_value /\ raw_value <= 8000 THEN raw_value
    ELSE IF 20000 <= raw_value /\ raw_value <= 40000 THEN raw_value - 27315
    ELSE IF 2000000 <= raw_value /\ raw_value <= 4000000
         THEN (raw_value \div 100) - 27315
    ELSE raw_value

\* satellite.py:169-184, on hundredths
ConvertToCelsius(raw_value) ==
    IF -5000 < raw_value /\ raw_value < 8000 THEN raw_value
    ELSE IF 20000 < raw_value /\ raw_value < 40000 THEN raw_value - 27315
    ELSE IF 2000000 < raw_value /\ raw_value < 4000000 THEN (raw_value \div 100) - 27315
    ELSE raw_value

\* floor of the square root, by bisection
RECURSIVE SqrtSearch(_, _, _)
SqrtSearch(n, lo, hi) ==
    IF lo = hi THEN lo
    ELSE LET mid == (lo + hi + 1) \div 2
         IN  IF mid * mid <= n THEN SqrtSearch(n, mid, hi)
             ELSE SqrtSearch(n, lo, mid - 1)

ISqrt(n) == SqrtSearch(n, 0, 46340)

\* satellite.py:195, in tenths of a coordinate unit; beyond the heat island every
\* distance gives the same temperature, so it is reported as just beyond
Dist(c) ==
    IF c.x > 1500 \/ c.x < -1500 \/ c.y > 1500 \/ c.y < -1500 THEN 15001
    ELSE ISqrt(100 * (c.x * c.x + c.y * c.y))

\* satellite.py:202: sin(lat * 1000) * cos(lon * 1000) * 3 in thousandths, as
\* <<x, y, value>>, tabulated at the coordinates sampled in synthetic mode: Center,
\* West, East, Origin, the heatmap grid points and the centres of the 10 x 10 and
\* 15 x 15 scan cells of the default bounds
VariationTable ==
    { <<3693621, -1478481, 0>>, <<-1500, -1500, -327>>, <<0, -1500, 243>>, <<-1400, -1400, -848>>,
      <<-1200, -1400, -1672>>, <<-1000, -1400, -2252>>, <<-800, -1400, -2506>>, <<-600, -1400, -2396>>,
      <<-400, -1400, -1937>>, <<-200, -1400, -1197>>, <<0, -1400, -284>>, <<200, -1400, 671>>,
      <<400, -1400, 1529>>, <<600, -1400, 2164>>, <<800, -1400, 2485>>, <<1000, -1400, 2445>>,
      <<1200, -1400, 2050>>, <<1400, -1400, 1357>>, <<-1350, -1350, -1257>>, <<-1050, -1350, 733>>,
      <<-750, -1350, 27>>, <<-450, -1350, -779>>, <<-150, -1350, 1280>>, <<150, -1350, -1369>>,
      <<450, -1350, 1017>>, <<750, -1350, -338>>, <<1050, -1350, -450>>, <<1350, -1350, 1093>>,
      <<-1400, -1200, -993>>, <<-1200, -1200, -1958>>, <<-1000, -1200, -2638>>, <<-800, -1200, -2935>>,
      <<-600, -1200, -2806>>, <<-400, -1200, -2269>>, <<-200, -1200, -1402>>, <<0, -1200, -332>>,
      <<200, -1200, 786>>, <<400, -1200, 1791>>, <<600, -1200, 2535>>, <<800, -1200, 2911>>,
      <<1000, -1200, 2864>>, <<1200, -1200, 2401>>, <<1400, -1200, 1589>>, <<-1350, -1050, -254>>,
      <<-1050, -1050, 148>>, <<-750, -1050, 6>>, <<-450, -1050, -157>>, <<-150, -1050, 258>>,
      <<150, -1050, -276>>, <<450, -1050, 205>>, <<750, -1050, -68>>, <<1050, -1050, -91>>,
      <<1350, -1050, 220>>, <<-1400, -1000, -994>>, <<-1200, -1000, -1960>>, <<-1000, -1000, -2640>>,
      <<-800, -1000, -2938>>, <<-600, -1000, -2808>>, <<-400, -1000, -2271>>, <<-200, -1000, -1404>>,
      <<0, -1000, -333>>, <<200, -1000, 787>>, <<400, -1000, 1792>>, <<600, -1000, 2537>>,
      <<800, -1000, 2913>>, <<1000, -1000, 2866>>, <<1200, -1000, 2403>>, <<1400, -1000, 1591>>,
      <<-1400, -800, -850>>, <<-1200, -800, -1677>>, <<-1000, -800, -2259>>, <<-800, -800, -2514>>,
      <<-600, -800, -2403>>, <<-400, -800, -1943>>, <<-200, -800, -1201>>, <<0, -800, -285>>,
      <<200, -800, 673>>, <<400, -800, 1533>>, <<600, -800, 2171>>, <<800, -800, 2493>>,
      <<1000, -800, 2453>>, <<1200, -800, 2056>>, <<1400, -800, 1361>>, <<-1350, -750, 1683>>,
      <<-1050, -750, -981>>, <<-750, -750, -37>>, <<-450, -750, 1042>>, <<-150, -750, -1713>>,
      <<150, -750, 1832>>, <<450, -750, -1361>>, <<750, -750, 453>>, <<1050, -750, 602>>,
      <<1350, -750, -1462>>, <<-1400, -600, -583>>, <<-1200, -600, -1150>>, <<-1000, -600, -1550>>,
      <<-800, -600, -1724>>, <<-600, -600, -1648>>, <<-400, -600, -1333>>, <<-200, -600, -824>>,
      <<0, -600, -195>>, <<200, -600, 462>>, <<400, -600, 1052>>, <<600, -600, 1489>>,
      <<800, -600, 1710>>, <<1000, -600, 1682>>, <<1200, -600, 1411>>, <<1400, -600, 934>>,
      <<-1350, -450, -2571>>, <<-1050, -450, 1499>>, <<-750, -450, 56>>, <<-450, -450, -1592>>,
      <<-150, -450, 2616>>, <<150, -450, -2798>>, <<450, -450, 2079>>, <<750, -450, -692>>,
      <<1050, -450, -919>>, <<1350, -450, 2234>>, <<-1400, -400, -232>>, <<-1200, -400, -457>>,
      <<-1000, -400, -615>>, <<-800, -400, -685>>, <<-600, -400, -654>>, <<-400, -400, -529>>,
      <<-200, -400, -327>>, <<0, -400, -77>>, <<200, -400, 183>>, <<400, -400, 418>>,
      <<600, -400, 591>>, <<800, -400, 679>>, <<1000, -400, 668>>, <<1200, -400, 560>>,
      <<1400, -400, 371>>, <<-1400, -200, 154>>, <<-1200, -200, 303>>, <<-1000, -200, 409>>,
      <<-800, -200, 455>>, <<-600, -200, 435>>, <<-400, -200, 351>>, <<-200, -200, 217>>,
      <<0, -200, 51>>, <<200, -200, -122>>, <<400, -200, -277>>, <<600, -200, -393>>,
      <<800, -200, -451>>, <<1000, -200, -444>>, <<1200, -200, -372>>, <<1400, -200, -246>>,
      <<-1350, -150, 2631>>, <<-1050, -150, -1534>>, <<-750, -150, -57>>, <<-450, -150, 1630>>,
      <<-150, -150, -2678>>, <<150, -150, 2864>>, <<450, -150, -2128>>, <<750, -150, 708>>,
      <<1050, -150, 941>>, <<1350, -150, -2286>>, <<-1500, 0, -233>>, <<-1400, 0, 517>>,
      <<-1200, 0, 1019>>, <<-1000, 0, 1373>>, <<-800, 0, 1528>>, <<-600, 0, 1460>>,
      <<-400, 0, 1181>>, <<-200, 0, 730>>, <<-150, 0, -1411>>, <<0, 0, 173>>,
      <<150, 0, 1509>>, <<200, 0, -409>>, <<400, 0, -932>>, <<600, 0, -1319>>,
      <<800, 0, -1515>>, <<1000, 0, -1491>>, <<1200, 0, -1250>>, <<1400, 0, -827>>,
      <<-1350, 150, -1844>>, <<-1050, 150, 1075>>, <<-750, 150, 40>>, <<-450, 150, -1142>>,
      <<-150, 150, 1877>>, <<150, 150, -2008>>, <<450, 150, 1492>>, <<750, 150, -496>>,
      <<1050, 150, -659>>, <<1350, 150, 1603>>, <<-1400, 200, 805>>, <<-1200, 200, 1587>>,
      <<-1000, 200, 2138>>, <<-800, 200, 2379>>, <<-600, 200, 2274>>, <<-400, 200, 1839>>,
      <<-200, 200, 1137>>, <<0, 200, 269>>, <<200, 200, -637>>, <<400, 200, -1451>>,
      <<600, 200, -2054>>, <<800, 200, -2359>>, <<1000, 200, -2321>>, <<1200, 200, -1946>>,
      <<1400, 200, -1288>>, <<-1400, 400, 976>>, <<-1200, 400, 1924>>, <<-1000, 400, 2593>>,
      <<-800, 400, 2885>>, <<-600, 400, 2758>>, <<-400, 400, 2230>>, <<-200, 400, 1378>>,
      <<0, 400, 327>>, <<200, 400, -773>>, <<400, 400, -1760>>, <<600, 400, -2491>>,
      <<800, 400, -2861>>, <<1000, 400, -2815>>, <<1200, 400, -2360>>, <<1400, 400, -1562>>,
      <<-1350, 450, 464>>, <<-1050, 450, -271>>, <<-750, 450, -10>>, <<-450, 450, 288>>,
      <<-150, 450, -473>>, <<150, 450, 505>>, <<450, 450, -376>>, <<750, 450, 125>>,
      <<1050, 450, 166>>, <<1350, 450, -403>>, <<-1400, 600, 1005>>, <<-1200, 600, 1982>>,
      <<-1000, 600, 2671>>, <<-800, 600, 2971>>, <<-600, 600, 2840>>, <<-400, 600, 2297>>,
      <<-200, 600, 1420>>, <<0, 600, 336>>, <<200, 600, -796>>, <<400, 600, -1813>>,
      <<600, 600, -2566>>, <<800, 600, -2946>>, <<1000, 600, -2899>>, <<1200, 600, -2431>>,
      <<1400, 600, -1609>>, <<-1350, 750, 1065>>, <<-1050, 750, -621>>, <<-750, 750, -23>>,
      <<-450, 750, 660>>, <<-150, 750, -1084>>, <<150, 750, 1159>>, <<450, 750, -862>>,
      <<750, 750, 287>>, <<1050, 750, 381>>, <<1350, 750, -926>>, <<-1400, 800, 889>>,
      <<-1200, 800, 1752>>, <<-1000, 800, 2360>>, <<-800, 800, 2626>>, <<-600, 800, 2511>>,
      <<-400, 800, 2030>>, <<-200, 800, 1255>>, <<0, 800, 297>>, <<200, 800, -703>>,
      <<400, 800, -1602>>, <<600, 800, -2268>>, <<800, 800, -2604>>, <<1000, 800, -2562>>,
      <<1200, 800, -2148>>, <<1400, 800, -1422>>, <<-1400, 1000, 643>>, <<-1200, 1000, 1267>>,
      <<-1000, 1000, 1707>>, <<-800, 1000, 1900>>, <<-600, 1000, 1816>>, <<-400, 1000, 1469>>,
      <<-200, 1000, 908>>, <<0, 1000, 215>>, <<200, 1000, -509>>, <<400, 1000, -1159>>,
      <<600, 1000, -1641>>, <<800, 1000, -1884>>, <<1000, 1000, -1854>>, <<1200, 1000, -1554>>,
      <<1400, 1000, -1029>>, <<-1350, 1050, -2252>>, <<-1050, 1050, 1313>>, <<-750, 1050, 49>>,
      <<-450, 1050, -1395>>, <<-150, 1050, 2292>>, <<150, 1050, -2451>>, <<450, 1050, 1822>>,
      <<750, 1050, -606>>, <<1050, 1050, -805>>, <<1350, 1050, 1957>>, <<-1400, 1200, 304>>,
      <<-1200, 1200, 599>>, <<-1000, 1200, 806>>, <<-800, 1200, 897>>, <<-600, 1200, 858>>,
      <<-400, 1200, 694>>, <<-200, 1200, 429>>, <<0, 1200, 102>>, <<200, 1200, -240>>,
      <<400, 1200, -547>>, <<600, 1200, -775>>, <<800, 1200, -890>>, <<1000, 1200, -875>>,
      <<1200, 1200, -734>>, <<1400, 1200, -486>>, <<-1350, 1350, 2714>>, <<-1050, 1350, -1582>>,
      <<-750, 1350, -59>>, <<-450, 1350, 1681>>, <<-150, 1350, -2762>>, <<150, 1350, 2954>>,
      <<450, 1350, -2195>>, <<750, 1350, 730>>, <<1050, 1350, 970>>, <<1350, 1350, -2358>>,
      <<-1400, 1400, -80>>, <<-1200, 1400, -157>>, <<-1000, 1400, -212>>, <<-800, 1400, -236>>,
      <<-600, 1400, -225>>, <<-400, 1400, -182>>, <<-200, 1400, -113>>, <<0, 1400, -27>>,
      <<200, 1400, 63>>, <<400, 1400, 144>>, <<600, 1400, 203>>, <<800, 1400, 234>>,
      <<1000, 1400, 230>>, <<1200, 1400, 193>>, <<1400, 1400, 128>> }

\* the table as a function of the point
VariationAt ==
    [p \in {<<e[1], e[2]>> : e \in VariationTable} |->
        (CHOOSE e \in VariationTable : e[1] = p[1] /\ e[2] = p[2])[3]] @@ <<>>

Variation(c) == VariationAt[<<c.x, c.y>>]

\* satellite.py:186-212
SyntheticTemperature(c, up) ==
    LET d == Dist(c)
        heat_island_effect ==
            IF 12000 - (8 * d) \div 10 > 0 THEN 12000 - (8 * d) \div 10 ELSE 0
        temperature == 28000 + heat_island_effect + Variation(c)
    IN  [coord |-> c, temperature_c |-> Some(RoundDiv(temperature, 100, up)),
         raw_value |-> temperature, source |-> "synthetic"]

\* satellite.py:30-58
LoadSat(s, env) ==
    IF ~env.available
    THEN [s EXCEPT !.fallback_mode = TRUE, !.loaded = TRUE]
    ELSE IF env.state = "missing"
    THEN [s EXCEPT !.fallback_mode = TRUE, !.loaded = TRUE]
    ELSE IF env.state = "bad_open"
    THEN [s EXCEPT !.fallback_mode = TRUE, !.loaded = TRUE]
    ELSE LET f == env.file
             ds == Some([left |-> f.left, top |-> f.top, span |-> f.span,
                         width |-> Len(f.pixels)])
         IN  IF env.state = "bad_read"
             THEN [s EXCEPT !.dataset = ds, !.fallback_mode = TRUE, !.loaded = TRUE]
             ELSE IF env.state = "bad_crs"
             THEN [s EXCEPT !.dataset = ds, !.data = Some(f.pixels),
                            !.fallback_mode = TRUE, !.loaded = TRUE]
             ELSE [s EXCEPT !.dataset = ds, !.data = Some(f.pixels),
                            !.transformer = Some("EPSG:4326"), !.loaded = TRUE]

\* transformer.transform raises (or yields a non-finite x, y on which rowcol
\* raises) for a coordinate the raster's CRS cannot place
Projectable(c) == c.x <= 3000 /\ c.x >= -3000 /\ c.y <= 3000 /\ c.y >= -3000

\* satellite.py:71-108: the raster branch of get_temperature_at
RasterSample(s, c, up) ==
    IF ~Projectable(c)
    THEN [coord |-> c, temperature_c |-> None, error |-> "transform failed",
          source |-> "sentinel-2"]
    ELSE LET ds == The(s.dataset)
             row == (ds.top - c.y) \div ds.span
             col == (c.x - ds.left) \div ds.span
         IN  IF 0 <= row /\ row < 1 /\ 0 <= col /\ col < Len(The(s.data))
             THEN LET raw_value == The(s.data)[col + 1]
                  IN  [coord |-> c,
                       temperature_c |-> Some(Round1(ConvertToCelsius(raw_value), up)),
                       raw_value |-> raw_value, source |-> "sentinel-2"]
             ELSE [coord |-> c, temperature_c |-> None,
                   error |-> "Coordinate outside raster bounds", source |-> "sentinel-2"]

\* satellite.py:60-108; returns the sampler after the call and the returned dict
GetTemperatureAt(s0, env, c, up) ==
    LET s == IF ~s0.loaded THEN LoadSat(s0, env) ELSE s0
    IN  [sat |-> s,
         ret |-> IF s.fallback_mode THEN SyntheticTemperature(c, up)
                 ELSE RasterSample(s, c, up)]

\* the outcomes of get_temperature_at(lat, lon): one, or two where round() meets a tie
SampleChoices(s0, env, c) == { GetTemperatureAt(s0, env, c, up) : up \in BOOLEAN }

\* satellite.py:110-133
GetBounds(s0, env) ==
    LET s == IF ~s0.loaded THEN LoadSat(s0, env) ELSE s0
    IN  [sat |-> s,
         ret |-> IF s.fallback_mode
                 THEN Some([north |-> 1500, south |-> -1500, east |-> 1500, west |-> -1500])
                 ELSE IF s.dataset = None THEN None
                 ELSE LET ds == The(s.dataset)
                      IN  Some([north |-> ds.top, south |-> ds.top - ds.span,
                                east |-> ds.left + ds.width * ds.span, west |-> ds.left])]

ResolutionChoices == {1, 2}

\* satellite.py:148-154: the k-th grid point, k = i * resolution + j + 1
GridPoint(bounds, resolution, k) ==
    LET i == (k - 1) \div resolution
        j == (k - 1) % resolution
        lat_step == (bounds.north - bounds.south) \div resolution
        lon_step == (bounds.east - bounds.west) \div resolution
    IN  [x |-> bounds.west + j * lon_step, y |-> bounds.south + i * lat_step]

\* satellite.py:159,164: round(max(0, min(1, (temp - 25) / 25)), 3), in thousandths
Intensity(temp) ==
    LET v == (temp - 250) * 4
    IN  IF v < 0 THEN 0 ELSE IF v > 1000 THEN 1000 ELSE v

\* satellite.py:135-167
GetHeatmapGrid(s0, env, resolution, up) ==
    LET s == IF ~s0.loaded THEN LoadSat(s0, env) ELSE s0
        bounds == GetBounds(s, env).ret
    IN  IF bounds = None THEN [sat |-> s, ret |-> <<>>]
        ELSE LET results == [k \in 1..(resolution * resolution) |->
                                GetTemperatureAt(s, env,
                                    GridPoint(The(bounds), resolution, k), up).ret]
                 kept == SelectSeq(results, LAMBDA r : r.temperature_c # None)
             IN  [sat |-> s,
                  ret |-> [k \in 1..Len(kept) |->
                             [coord |-> kept[k].coord,
                              temperature_c |-> The(kept[k].temperature_c),
                              intensity |-> Intensity(The(kept[k].temperature_c))]]]

\* what the sampler's own operations never touch
NotSampler == <<fvars, mvars, cvars, kvars, gvars, rvars, vvars>>

\* satellite_service.load()
Load ==
    /\ sat' = LoadSat(sat, Env)
    /\ s_op' = "load"
    /\ s_ret' = None
    /\ UNCHANGED <<rasterio_available, tiff_state, tiff_file>>
    /\ UNCHANGED NotSampler

\* satellite_service.get_temperature_at(lat, lon)
GetTemperature ==
    /\ \E c \in CoordChoices :
       \E r \in SampleChoices(sat, Env, c) :
         /\ sat' = r.sat
         /\ s_ret' = r.ret
    /\ s_op' = "get_temperature_at"
    /\ UNCHANGED <<rasterio_available, tiff_state, tiff_file>>
    /\ UNCHANGED NotSampler

\* satellite_service.get_bounds()
GetBoundsCall ==
    /\ LET r == GetBounds(sat, Env)
       IN  /\ sat' = r.sat
           /\ s_ret' = r.ret
    /\ s_op' = "get_bounds"
    /\ UNCHANGED <<rasterio_available, tiff_state, tiff_file>>
    /\ UNCHANGED NotSampler

\* satellite_service.get_heatmap_grid(resolution)
GetHeatmapGridCall ==
    /\ \E resolution \in ResolutionChoices, up \in BOOLEAN :
         LET r == GetHeatmapGrid(sat, Env, resolution, up)
         IN  /\ sat' = r.sat
             /\ s_ret' = r.ret
    /\ s_op' = "get_heatmap_grid"
    /\ UNCHANGED <<rasterio_available, tiff_state, tiff_file>>
    /\ UNCHANGED NotSampler

\* the environment: the file at HEATMAP_TIFF_PATH appears, disappears or becomes
\* unreadable while the process runs
FileChange ==
    /\ \E st \in TiffStates \ {tiff_state} : tiff_state' = st
    /\ UNCHANGED <<sat, rasterio_available, tiff_file, s_op, s_ret>>
    /\ UNCHANGED NotSampler

InitSampler ==
    /\ sat = SatNew
    /\ rasterio_available \in BOOLEAN
    /\ tiff_state \in TiffStates
    /\ tiff_file \in RasterFiles
    /\ s_op = "none"
    /\ s_ret = None
    /\ f_pc = "idle"
    /\ total_cost = Zero
    /\ co2_offset_kg = 0
    /\ remaining = Zero
    /\ funding_breakdown = <<>>
    /\ municipal_contribution = None
    /\ annual_payment = None
    /\ f_result = None
    /\ sim_pc = "idle"
    /\ sim_item = None
    /\ sim_i = 0
    /\ total_cooling = 0
    /\ tree_count = 0
    /\ last_impact = None
    /\ sim_result = None
    /\ hotspots_cache = None
    /\ suggestions_cache = None
    /\ a_op = "none"
    /\ a_ret = <<>>
    /\ a_scanned = FALSE
    /\ c_raw = 0
    /\ c_celsius = None
    /\ g_interventions = <<>>
    /\ g_region = "vancouver"
    /\ g_result = None
    /\ r_kind = "get_hotspots"
    /\ r_round = [up |-> FALSE, cup |-> FALSE]
    /\ r_pc = [t \in Callers |-> "idle"]
    /\ r_local = [t \in Callers |-> <<>>]
    /\ r_ret = [t \in Callers |-> None]
    /\ v_cache = <<>>
    /\ v_pc = [t \in Callers |-> "idle"]
    /\ v_args = [t \in Callers |-> None]
    /\ v_ret = [t \in Callers |-> None]
    /\ v_queries = 0

NextSampler ==
    \/ Load
    \/ GetTemperature
    \/ GetBoundsCall
    \/ GetHeatmapGridCall
    \/ FileChange

SpecSampler == InitSampler /\ [][NextSampler]_vars

(***************************************************************************)
(* Claims on the sampler (checked under SpecSampler).                      *)
(***************************************************************************)
SampleReturned == s_op = "get_temperature_at"

RoundedRaw(r) == {Round1(r.raw_value, FALSE), Round1(r.raw_value, TRUE)}

\* C6 (as the code has it): get_temperature_at returns without raising a dict
\* whose temperature_c is None together with an error annotation, or a number:
\* in synthetic mode within 25..43; in raster mode the raw pixel itself (to one
\* decimal) when the raw value lies strictly between -50 and 80 or in none of the
\* three unit ranges, and the raw value converted from Kelvin or Kelvin * 100,
\* within -73.2..126.9, when it lies in one of those two ranges.
C6_SampleAbsentOrConverted ==
    SampleReturned =>
        /\ "temperature_c" \in DOMAIN s_ret
        /\ s_ret.temperature_c = None => "error" \in DOMAIN s_ret
        /\ IsSome(s_ret.temperature_c) =>
              LET t == The(s_ret.temperature_c)
                  raw == s_ret.raw_value
              IN  /\ s_ret.source = "synthetic" => (250 <= t /\ t <= 430)
                  /\ s_ret.source = "sentinel-2" =>
                        IF -5000 < raw /\ raw < 8000
                        THEN t \in RoundedRaw(s_ret) /\ -500 <= t /\ t <= 800
                        ELSE IF \/ (20000 < raw /\ raw < 40000)
                                \/ (2000000 < raw /\ raw < 4000000)
                        THEN -732 <= t /\ t <= 1269
                        ELSE t \in RoundedRaw(s_ret)

\* a raster sample of a pixel in none of the three unit ranges (raw value 100)
C6_RawPassedThrough ==
    /\ SampleReturned
    /\ s_ret.source = "sentinel-2"
    /\ s_ret.temperature_c = Some(1000)
    /\ s_ret.raw_value = 10000

\* C6 (as stated): temperature_c of every sample is None with an error
\* annotation, or a Celsius value within -50..80.
C6_SampleAbsentOrPlausible ==
    SampleReturned =>
        \/ s_ret.temperature_c = None /\ "error" \in DOMAIN s_ret
        \/ /\ IsSome(s_ret.temperature_c)
           /\ -500 <= The(s_ret.temperature_c)
           /\ The(s_ret.temperature_c) <= 800

\* C9: once the sampler is resolved, no step - load(), get_temperature_at,
\* get_bounds, get_heatmap_grid, whatever happens to the file - changes loaded,
\* fallback or the pixel grid.
C9_ResolvedModeNeverChanges ==
    [][sat.loaded =>
          /\ sat'.loaded
          /\ sat'.fallback_mode = sat.fallback_mode
          /\ sat'.data = sat.data]_vars

\* the failure cases of load(): no raster library, no file, or open / read /
\* transformer construction raising
LoadFails(env) == ~env.available \/ env.state # "ok"

\* C10: every load() returns with loaded = true and with fallback = true exactly
\* when it hit a failure case; no sampler operation returns with loaded = false;
\* get_bounds never returns None.
C10_LoadResolvesExactly ==
    [][/\ Load => (sat'.loaded /\ (sat'.fallback_mode <=> LoadFails(Env)))
       /\ s_op' # "none" => sat'.loaded
       /\ s_op' = "get_bounds" => s_ret' # None]_vars

(***************************************************************************)
(* The cooling simulator, services/analysis.py: simulate_cooling_v2 and    *)
(* the legacy simulate_cooling, one loop iteration per step.  The list of  *)
(* interventions is revealed as the loop runs: it repeats one item and     *)
(* ends after any number of iterations up to MaxItems.  Temperatures and   *)
(* coolings are tenths of a degree.  The roi entry of the v2 result        *)
(* (calculate_roi) reads neither the sampler nor the loop's locals and is  *)
(* left out.                                                               *)
(***************************************************************************)
MaxItems == 67

\* analysis.py:16-56, cooling_c
TREE_SPECIES == [oak |-> 40, maple |-> 25, pine |-> 15]
\* analysis.py:60-83, cooling_c
INTERVENTION_TYPES == [cool_roof |-> 40, bio_swale |-> 20]

\* the dicts the /simulate-v2 controller builds: {type, species, lat, lon}
ItemChoices ==
    { [type |-> ty[1], species |-> ty[2], coord |-> c] :
        ty \in { <<"tree", Some("oak")>>, <<"tree", Some("pine")>>, <<"tree", None>>,
                 <<"tree", Some("baobab")>>, <<"cool_roof", None>>, <<"bio_swale", None>>, <<"fountain", None>> },
        c \in {Center, West, Origin} }

\* the dicts the /simulate controller builds: {lat, lon}
TreeChoices == { [coord |-> c] : c \in {Center, West, Origin} }

\* the file at HEATMAP_TIFF_PATH when the process starts
SimEnvChoices ==
    { <<"missing", FileHot>>, <<"ok", FileHot>>, <<"ok", FileNarrow>>, <<"ok", FileOdd>> }

\* dict.get(key, default)
Get(d, key, default) == IF key \in DOMAIN d THEN d[key] ELSE default

\* TREE_SPECIES.get(species_id, TREE_SPECIES["maple"])["cooling_c"]
SpeciesCooling(species_id) ==
    IF IsSome(species_id) /\ The(species_id) \in DOMAIN TREE_SPECIES
    THEN TREE_SPECIES[The(species_id)]
    ELSE TREE_SPECIES["maple"]

\* round(base * random.uniform(a, b), 1) for multipliers a, b in tenths: the value
\* at the smallest multiplier (a tie rounded up, which a slightly larger
\* multiplier also yields) and at the largest (a tie rounded down, likewise)
UniformCooling(base, a, b) == { Round1(base * a, TRUE), Round1(base * b, FALSE) }

\* the loop body with the middle multipliers at every temperature
CoolingChoicesV2Flat(item, local_temp) ==
    IF item.type = "tree"
    THEN UniformCooling(SpeciesCooling(item.species), 8, 11)
    ELSE IF item.type = "cool_roof"
    THEN UniformCooling(INTERVENTION_TYPES["cool_roof"], 8, 12)
    ELSE IF item.type = "bio_swale"
    THEN UniformCooling(INTERVENTION_TYPES["bio_swale"], 7, 11)
    ELSE {10}

\* analysis.py:624-645: the coolings the code can assign to (item, local_temp)
CoolingChoicesV2(item, local_temp) ==
    IF item.type = "tree"
    THEN LET base_cooling == SpeciesCooling(item.species)
         IN  IF local_temp >= 450 THEN UniformCooling(base_cooling, 11, 14)
             ELSE IF local_temp >= 380 THEN UniformCooling(base_cooling, 8, 11)
             ELSE UniformCooling(base_cooling, 5, 8)
    ELSE IF item.type = "cool_roof"
    THEN UniformCooling(INTERVENTION_TYPES["cool_roof"], 8, 12)
    ELSE IF item.type = "bio_swale"
    THEN UniformCooling(INTERVENTION_TYPES["bio_swale"], 7, 11)
    ELSE {10}

\* analysis.py:216-223: round(random.uniform(lo, hi), 1)
CoolingChoicesLegacy(local_temp) ==
    IF local_temp >= 450 THEN {35, 55}
    ELSE IF local_temp >= 380 THEN {20, 40}
    ELSE IF local_temp >= 320 THEN {10, 25}
    ELSE {5, 15}

Min2(a, b) == IF a < b THEN a ELSE b
Max2(a, b) == IF a > b THEN a ELSE b

\* the aggregate without the min(15.0, ...) of line 661
AreaCoolingV2Uncapped(total, n) == total * (1000 - 15 * n)

\* analysis.py:662: min(15, total_cooling * 0.25 * (1 - 0.015 * n)), in 1/40000 degree
AreaCoolingV2(total, n) == Min2(15 * 40000, total * (1000 - 15 * n))

\* analysis.py:239: min(12, total_cooling * 0.3 * (1 - 0.02 * num_trees)), in 1/40000 degree
AreaCoolingLegacy(total, n) == Min2(12 * 40000, total * 12 * (100 - 2 * n))

\* an impact whose surface temperature is not allowed below freezing
SurfaceTempAfterClamped(local_temp, cooling) == Max2(local_temp - cooling, 0)

\* analysis.py:656 and 232: round(local_temp - cooling, 1), on tenths
SurfaceTempAfter(local_temp, cooling) == local_temp - cooling

\* the red-zone share without its floor
AfterRedPctV2Unfloored(n) == 350 - 20 * n

\* analysis.py:669: round(max(3, before_red_pct - n * 2.0), 1), in tenths of a percent
AfterRedPctV2(n) == Max2(30, 350 - 20 * n)

\* analysis.py:246: round(max(5, before_red_pct - num_trees * 2.5), 1)
AfterRedPctLegacy(n) == Max2(50, 350 - 25 * n)

\* analysis.py:663-669 and 240-246: the before / after blocks the code can
\* compute from avg_before (tenths), area_cooling (1/40000 degree) and the
\* red-zone share (tenths of a percent)
BeforeAfter(avg_before, area_cooling, after_red_pct) ==
    LET before_max == avg_before + 80
        AfterMaxExact(avg_after) ==
            Max2(before_max * 40000 - 12 * area_cooling, (avg_after + 20) * 40000)
    IN  { [before |-> [avg_temperature_c |-> avg_before,
                       max_temperature_c |-> before_max,
                       red_zone_area_pct |-> 350],
           after |-> [avg_temperature_c |-> avg_after,
                      max_temperature_c |-> RoundDiv(AfterMaxExact(avg_after), 40000, u2),
                      red_zone_area_pct |-> after_red_pct]] :
            <<avg_after, u2>> \in
              UNION { { <<a, u>> : u \in Ties(AfterMaxExact(a), 40000) } :
                      a \in { RoundDiv(avg_before * 4000 - area_cooling, 4000, u1) :
                              u1 \in Ties(avg_before * 4000 - area_cooling, 4000) } } }

\* analysis.py:593-609 and 186-202: the result for an empty list
EmptyResult(avg_temp) ==
    [before |-> [avg_temperature_c |-> avg_temp, max_temperature_c |-> avg_temp + 80,
                 red_zone_area_pct |-> 350],
     after |-> [avg_temperature_c |-> avg_temp, max_temperature_c |-> avg_temp + 80,
                red_zone_area_pct |-> 350],
     trees_planted |-> 0, total_cooling_c |-> 0, tree_impacts |-> <<>>]

SimIdle == sim_pc \in {"idle", "returned", "raised"}

NotSim == <<fvars, rasterio_available, tiff_state, tiff_file, cvars, kvars, gvars, rvars, vvars>>

\* main.py:37-40: startup calls satellite_service.load()
Startup ==
    /\ sim_pc = "idle"
    /\ ~sat.loaded
    /\ sat' = LoadSat(sat, Env)
    /\ s_op' = "load"
    /\ s_ret' = None
    /\ UNCHANGED mvars
    /\ UNCHANGED NotSim

\* analysis.py:582-615: simulate_cooling_v2(interventions) is called
SimulateCoolingV2 ==
    /\ SimIdle
    /\ sat.loaded
    /\ sim_pc' = "v2_loop"
    /\ sim_item' = None
    /\ sim_i' = 0
    /\ total_cooling' = 0
    /\ tree_count' = 0
    /\ last_impact' = None
    /\ sim_result' = None
    /\ UNCHANGED <<sat, s_op, s_ret>>
    /\ UNCHANGED NotSim

\* analysis.py:617-657: one iteration of the loop.  A None local_temp raises
\* TypeError: for a tree at `local_temp >= 45`, after tree_count += 1; otherwise at
\* `local_temp - cooling`, after total_cooling += cooling.
V2Item ==
    /\ sim_pc = "v2_loop"
    /\ sim_i < MaxItems
    /\ \E item \in (IF sim_i = 0 THEN ItemChoices ELSE {The(sim_item)}) :
       \E r \in SampleChoices(sat, Env, item.coord) :
         LET local_temp == Get(r.ret, "temperature_c", Some(350))
             itype == item.type
         IN  /\ sat' = r.sat
             /\ s_op' = "get_temperature_at"
             /\ s_ret' = r.ret
             /\ sim_item' = Some(item)
             /\ tree_count' = IF itype = "tree" THEN tree_count + 1 ELSE tree_count
             /\ IF local_temp = None
                THEN /\ sim_pc' = "raised"
                     /\ IF itype = "tree"
                        THEN total_cooling' = total_cooling
                        ELSE \E cooling \in CoolingChoicesV2(item, 0) :
                                total_cooling' = total_cooling + cooling
                     /\ UNCHANGED <<sim_i, last_impact>>
                ELSE /\ sim_pc' = "v2_loop"
                     /\ \E cooling \in CoolingChoicesV2(item, The(local_temp)) :
                          /\ total_cooling' = total_cooling + cooling
                          /\ last_impact' = Some(
                               [index |-> sim_i, type |-> itype, species |-> item.species,
                                coord |-> item.coord,
                                surface_temp_before |-> The(local_temp),
                                cooling_c |-> cooling,
                                surface_temp_after |-> SurfaceTempAfter(The(local_temp), cooling)])
                     /\ sim_i' = sim_i + 1
    /\ UNCHANGED sim_result
    /\ UNCHANGED NotSim

\* analysis.py:593-609 (empty list) and 659-690: the list ends here, n = sim_i.
\* A None from _get_area_avg_temp raises TypeError at `avg_temp + 8` or at
\* `avg_before - area_cooling`.
V2Return ==
    /\ sim_pc = "v2_loop"
    /\ \E r \in SampleChoices(sat, Env, Center) :
         LET avg_before == Get(r.ret, "temperature_c", Some(350))
             n == sim_i
             area_cooling == AreaCoolingV2(total_cooling, n)
         IN  /\ sat' = r.sat
             /\ s_op' = "get_temperature_at"
             /\ s_ret' = r.ret
             /\ IF avg_before = None
                THEN /\ sim_pc' = "raised"
                     /\ sim_result' = None
                ELSE /\ sim_pc' = "returned"
                     /\ IF n = 0
                        THEN sim_result' =
                               Some(EmptyResult(The(avg_before)) @@ [area_cooling_c |-> 0])
                        ELSE \E ba \in BeforeAfter(The(avg_before), area_cooling,
                                                   AfterRedPctV2(n)),
                                u3 \in Ties(area_cooling, 4000) :
                               sim_result' = Some(ba @@
                                 [trees_planted |-> tree_count,
                                  interventions_total |-> n,
                                  total_cooling_c |-> total_cooling,
                                  area_cooling_c |-> RoundDiv(area_cooling, 4000, u3),
                                  tree_impacts |-> last_impact])
    /\ UNCHANGED <<sim_item, sim_i, total_cooling, tree_count, last_impact>>
    /\ UNCHANGED NotSim

\* analysis.py:172-206: the legacy simulate_cooling(trees) is called
SimulateCooling ==
    /\ SimIdle
    /\ sat.loaded
    /\ sim_pc' = "legacy_loop"
    /\ sim_item' = None
    /\ sim_i' = 0
    /\ total_cooling' = 0
    /\ tree_count' = 0
    /\ last_impact' = None
    /\ sim_result' = None
    /\ UNCHANGED <<sat, s_op, s_ret>>
    /\ UNCHANGED NotSim

\* analysis.py:207-234: one iteration of the legacy loop; a None local_temp raises
\* TypeError at `local_temp >= 45`
LegacyTree ==
    /\ sim_pc = "legacy_loop"
    /\ sim_i < MaxItems
    /\ \E tree \in (IF sim_i = 0 THEN TreeChoices ELSE {The(sim_item)}) :
       \E r \in SampleChoices(sat, Env, tree.coord) :
         LET local_temp == Get(r.ret, "temperature_c", Some(350))
         IN  /\ sat' = r.sat
             /\ s_op' = "get_temperature_at"
             /\ s_ret' = r.ret
             /\ sim_item' = Some(tree)
             /\ IF local_temp = None
                THEN /\ sim_pc' = "raised"
                     /\ UNCHANGED <<sim_i, total_cooling, last_impact>>
                ELSE /\ sim_pc' = "legacy_loop"
                     /\ \E cooling \in CoolingChoicesLegacy(The(local_temp)) :
                          /\ total_cooling' = total_cooling + cooling
                          /\ last_impact' = Some(
                               [tree_index |-> sim_i, coord |-> tree.coord,
                                surface_temp_before |-> The(local_temp),
                                cooling_c |-> cooling,
                                surface_temp_after |-> SurfaceTempAfter(The(local_temp), cooling)])
                     /\ sim_i' = sim_i + 1
    /\ UNCHANGED <<tree_count, sim_result>>
    /\ UNCHANGED NotSim

\* analysis.py:185-202 (empty list, after get_bounds) and 236-263: the list ends
\* here, num_trees = sim_i
LegacyReturn ==
    /\ sim_pc = "legacy_loop"
    /\ \E r \in SampleChoices(IF sim_i = 0 THEN GetBounds(sat, Env).sat ELSE sat,
                              Env, Center) :
         LET avg_before == Get(r.ret, "temperature_c", Some(350))
             num_trees == sim_i
             area_cooling == AreaCoolingLegacy(total_cooling, num_trees)
         IN  /\ sat' = r.sat
             /\ s_op' = "get_temperature_at"
             /\ s_ret' = r.ret
             /\ IF avg_before = None
                THEN /\ sim_pc' = "raised"
                     /\ sim_result' = None
                ELSE /\ sim_pc' = "returned"
                     /\ IF num_trees = 0
                        THEN sim_result' = Some(EmptyResult(The(avg_before)))
                        ELSE \E ba \in BeforeAfter(The(avg_before), area_cooling,
                                                   AfterRedPctLegacy(num_trees)),
                                u3 \in Ties(area_cooling, 4000) :
                               sim_result' = Some(ba @@
                                 [trees_planted |-> num_trees,
                                  total_cooling_c |-> total_cooling,
                                  area_cooling_c |-> RoundDiv(area_cooling, 4000, u3),
                                  tree_impacts |-> last_impact])
    /\ UNCHANGED <<sim_item, sim_i, total_cooling, tree_count, last_impact>>
    /\ UNCHANGED NotSim

InitSim ==
    /\ sat = SatNew
    /\ rasterio_available = TRUE
    /\ \E e \in SimEnvChoices : tiff_state = e[1] /\ tiff_file = e[2]
    /\ s_op = "none"
    /\ s_ret = None
    /\ sim_pc = "idle"
    /\ sim_item = None
    /\ sim_i = 0
    /\ total_cooling = 0
    /\ tree_count = 0
    /\ last_impact = None
    /\ sim_result = None
    /\ f_pc = "idle"
    /\ total_cost = Zero
    /\ co2_offset_kg = 0
    /\ remaining = Zero
    /\ funding_breakdown = <<>>
    /\ municipal_contribution = None
    /\ annual_payment = None
    /\ f_result = None
    /\ hotspots_cache = None
    /\ suggestions_cache = None
    /\ a_op = "none"
    /\ a_ret = <<>>
    /\ a_scanned = FALSE
    /\ c_raw = 0
    /\ c_celsius = None
    /\ g_interventions = <<>>
    /\ g_region = "vancouver"
    /\ g_result = None
    /\ r_kind = "get_hotspots"
    /\ r_round = [up |-> FALSE, cup |-> FALSE]
    /\ r_pc = [t \in Callers |-> "idle"]
    /\ r_local = [t \in Callers |-> <<>>]
    /\ r_ret = [t \in Callers |-> None]
    /\ v_cache = <<>>
    /\ v_pc = [t \in Callers |-> "idle"]
    /\ v_args = [t \in Callers |-> None]
    /\ v_ret = [t \in Callers |-> None]
    /\ v_queries = 0

NextSim ==
    \/ Startup
    \/ SimulateCoolingV2
    \/ V2Item
    \/ V2Return
    \/ SimulateCooling
    \/ LegacyTree
    \/ LegacyReturn

SpecSim == InitSim /\ [][NextSim]_vars

(***************************************************************************)
(* Claims on the simulator (checked under SpecSim).                        *)
(***************************************************************************)
SimReturned == sim_pc = "returned"

\* C1: for a non-empty list, simulate_cooling_v2 and simulate_cooling return
\* after.avg_temperature_c <= before.avg_temperature_c.
C1_AfterAvgNotAboveBefore ==
    (SimReturned /\ sim_i > 0) =>
        The(sim_result).after.avg_temperature_c <=
            The(sim_result).before.avg_temperature_c

\* C7: neither simulator raises: a sample without a temperature, for an item's
\* coordinate or for the area centre, still ends in a returned result.
C7_DegradedSampleStillReturns == sim_pc # "raised"

KnownKinds == {"tree", "cool_roof", "bio_swale"}

\* C8: an item of simulate_cooling_v2 whose kind is none of tree, cool_roof,
\* bio_swale gets an impact marked invalid, and no cooling is added for it to
\* total_cooling (the list repeats the item, so the total stays 0).
C8_UnknownKindMarkedInvalid ==
    (/\ IsSome(last_impact)
     /\ "type" \in DOMAIN The(last_impact)
     /\ The(last_impact).type \notin KnownKinds) =>
        /\ "invalid" \in DOMAIN The(last_impact)
        /\ total_cooling = 0


\* C21: every impact record of simulate_cooling_v2 and simulate_cooling has
\* cooling_c >= 0 and surface_temp_after = surface_temp_before - cooling_c to
\* the tenth, whatever the surface temperature (no floor is applied).
C21_ImpactIsDifference ==
    IsSome(last_impact) =>
        /\ The(last_impact).cooling_c >= 0
        /\ The(last_impact).surface_temp_after =
               The(last_impact).surface_temp_before - The(last_impact).cooling_c

\* an impact on a nodata pixel of -9999.0: the difference is kept as it is
C21_NoFloor ==
    /\ IsSome(last_impact)
    /\ The(last_impact).surface_temp_before = -99990
    /\ The(last_impact).cooling_c > 0
    /\ The(last_impact).surface_temp_after < -99990

\* C23: with the same cooling for every item, one more item never lowers the
\* area cooling simulate_cooling_v2 computes (before rounding), at every list
\* length, and the gain of an item is at most the gain of the item before it.
C23_OneMoreItemStillHelps ==
    (/\ sim_pc = "v2_loop"
     /\ sim_i >= 1
     /\ total_cooling = sim_i * The(last_impact).cooling_c) =>
        LET c == The(last_impact).cooling_c
            n == sim_i
            a0 == AreaCoolingV2((n - 1) * c, n - 1)
            a1 == AreaCoolingV2(n * c, n)
            a2 == AreaCoolingV2((n + 1) * c, n + 1)
        IN  /\ a2 >= a1
            /\ a2 - a1 <= a1 - a0

\* C25: for a non-empty list, after.max_temperature_c of simulate_cooling_v2 is
\* max(before.max - 1.2 x area_cooling, after.avg + 2) to the tenth, at least
\* after.avg_temperature_c + 2.0 and at most before.max_temperature_c, which is
\* before.avg + 8.0.
C25_AfterMaxBetween ==
    (SimReturned /\ "interventions_total" \in DOMAIN The(sim_result)) =>
        LET res == The(sim_result)
            area == AreaCoolingV2(total_cooling, sim_i)
            exact == Max2(res.before.max_temperature_c * 40000 - 12 * area,
                          (res.after.avg_temperature_c + 20) * 40000)
        IN  /\ res.before.max_temperature_c = res.before.avg_temperature_c + 80
            /\ 2 * (res.after.max_temperature_c * 40000 - exact) <= 40000
            /\ 2 * (exact - res.after.max_temperature_c * 40000) <= 40000
            /\ res.after.max_temperature_c >= res.after.avg_temperature_c + 20
            /\ res.after.max_temperature_c <= res.before.max_temperature_c

\* C26: before.red_zone_area_pct is 35.0 and after.red_zone_area_pct is
\* max(3, 35 - 2.0 x n) for simulate_cooling_v2 and max(5, 35 - 2.5 x n) for
\* simulate_cooling, n being the length of the list: never above 35.0, never
\* below the floor, within [0, 100], and not larger than for a list one shorter.
C26_RedZoneShare ==
    SimReturned =>
        LET res == The(sim_result)
            n == sim_i
            floor == IF "interventions_total" \in DOMAIN res THEN 30 ELSE 50
            slope == IF "interventions_total" \in DOMAIN res THEN 20 ELSE 25
            expected == IF 350 - slope * n > floor THEN 350 - slope * n ELSE floor
            shorter == IF 350 - slope * (n - 1) > floor THEN 350 - slope * (n - 1) ELSE floor
        IN  /\ res.before.red_zone_area_pct = 350
            /\ res.after.red_zone_area_pct = expected
            /\ res.after.red_zone_area_pct <= 350
            /\ res.after.red_zone_area_pct >= floor
            /\ res.after.red_zone_area_pct >= 0
            /\ res.after.red_zone_area_pct <= 1000
            /\ n >= 1 => res.after.red_zone_area_pct <= shorter

\* twenty interventions: 35 - 40 lies below the floor 3 of simulate_cooling_v2
C26_FloorReached ==
    /\ SimReturned
    /\ "interventions_total" \in DOMAIN The(sim_result)
    /\ The(sim_result).interventions_total = 20
    /\ The(sim_result).after.red_zone_area_pct = 30

\* C15: simulate_cooling_v2([]) returns, in every sampler mode, a result whose
\* before and after are equal field for field (max = avg + 8.0, red zone 35.0),
\* with total_cooling_c = 0, area_cooling_c = 0, trees_planted = 0 and no impact.
C15_EmptyListNeutral ==
    [][(V2Return /\ sim_i = 0) =>
          /\ sim_pc' = "returned"
          /\ The(sim_result').before = The(sim_result').after
          /\ The(sim_result').before.max_temperature_c =
                 The(sim_result').before.avg_temperature_c + 80
          /\ The(sim_result').before.red_zone_area_pct = 350
          /\ The(sim_result').total_cooling_c = 0
          /\ The(sim_result').area_cooling_c = 0
          /\ The(sim_result').trees_planted = 0
          /\ The(sim_result').tree_impacts = <<>>
      ]_vars

\* C16: the area_cooling_c of a returned result is at most 15.0 for
\* simulate_cooling_v2 and at most 12.0 for the legacy simulate_cooling, whatever
\* the list and the multipliers drawn.
C16_AreaCoolingCapped ==
    (SimReturned /\ "area_cooling_c" \in DOMAIN The(sim_result)) =>
        IF "interventions_total" \in DOMAIN The(sim_result)
        THEN The(sim_result).area_cooling_c <= 150
        ELSE The(sim_result).area_cooling_c <= 120

\* a simulate_cooling_v2 result whose aggregate was cut to the cap: per-item
\* coolings summing to more than 15
C16_CapReached ==
    /\ SimReturned
    /\ "interventions_total" \in DOMAIN The(sim_result)
    /\ The(sim_result).total_cooling_c > 150
    /\ The(sim_result).area_cooling_c = 150

\* base cooling of a species by the claim's table, in tenths
C20_Base(species) ==
    IF species = Some("oak") THEN 40
    ELSE IF species = Some("pine") THEN 15
    ELSE 25

HotspotGridSize == 10
SuggestionGridSize == 15

\* analysis.py:127-133 (and 289-295): the centre of cell (i, j); the extents of
\* the modelled rasters and of the fallback bounds are multiples of
\* 2 * grid_size, so the steps and half steps are exact
CellCenter(bounds, grid_size, i, j) ==
    LET lat_step == (bounds.north - bounds.south) \div grid_size
        lon_step == (bounds.east - bounds.west) \div grid_size
    IN  [x |-> bounds.west + j * lon_step + lon_step \div 2,
         y |-> bounds.south + i * lat_step + lat_step \div 2]

\* analysis.py:130-136 (and 292-298): the samples of the scan in loop order, i
\* outer and j inner; the sampler is loaded by get_bounds before the loop, so a
\* sample leaves it unchanged
ScanSamples(s, env, bounds, grid_size, up) ==
    [k \in 1..(grid_size * grid_size) |->
        GetTemperatureAt(s, env,
            CellCenter(bounds, grid_size, (k - 1) \div grid_size, (k - 1) % grid_size),
            up).ret]

\* analysis.py:139: "if temp and temp >= 40" (None and 0.0 are falsy)
IsHot(temp) == temp # None /\ The(temp) # 0 /\ The(temp) >= 400

\* analysis.py:141-161: the record of one hotspot (desc is fixed by type)
HotspotRecord(sample) ==
    LET temp == The(sample.temperature_c)
    IN  [coord |-> sample.coord,
         type |-> IF temp >= 500 THEN "parking"
                  ELSE IF temp >= 470 THEN "intersection"
                  ELSE IF temp >= 450 THEN "walkway"
                  ELSE "bus_stop",
         temperature_c |-> temp,
         severity |-> IF temp >= 500 THEN "extreme"
                      ELSE IF temp >= 450 THEN "high"
                      ELSE "elevated"]

\* analysis.py:303: "if temp and 33 <= temp < 46"
SuitableInclusive(temp) ==
    temp # None /\ The(temp) # 0 /\ 330 <= The(temp) /\ The(temp) <= 460

Suitable(temp) ==
    temp # None /\ The(temp) # 0 /\ 330 <= The(temp) /\ The(temp) < 460

\* analysis.py:305: round((temp - 32) * 1.3, 1), in tenths
CoolingPotential(temp, up) == RoundDiv((temp - 320) * 13, 10, up)

\* analysis.py:305-322: the record of one suggestion
SuggestionRecord(sample, up) ==
    LET temp == The(sample.temperature_c)
        cooling_potential == CoolingPotential(temp, up)
    IN  [coord |-> sample.coord,
         cooling_potential |-> cooling_potential,
         reason |-> IF temp >= 420 THEN "high heat"
                    ELSE IF temp >= 390 THEN "elevated"
                    ELSE "moderate",
         priority |-> IF cooling_potential >= 40 THEN "high" ELSE "medium",
         temperature_c |-> temp]

\* list.sort(key=..., reverse=True) is stable: a record comes behind every
\* record with a larger key and behind the earlier records with its own key
SortKeep(seq, key) == seq

SortDesc(seq, key) ==
    LET n == Len(seq)
        rank == SubSeq([k \in 1..n |->
                    1 + Cardinality({j \in 1..n :
                            \/ seq[j][key] > seq[k][key]
                            \/ seq[j][key] = seq[k][key] /\ j < k})], 1, n)
    IN  [p \in 1..n |-> seq[CHOOSE k \in 1..n : rank[k] = p]]

\* list[:n]
Take(seq, n) == SubSeq(seq, 1, Min2(n, Len(seq)))

\* analysis.py:121-165: the loop, the sort and the slice of get_hotspots
ScanHotspots(s, env, bounds, up) ==
    LET samples == ScanSamples(s, env, bounds, HotspotGridSize, up)
        hot == SelectSeq(samples, LAMBDA r : IsHot(r.temperature_c))
        hotspots == SubSeq([k \in 1..Len(hot) |-> HotspotRecord(hot[k])], 1, Len(hot))
    IN  Take(SortDesc(hotspots, "temperature_c"), 15)

\* analysis.py:285-326: the loop, the sort and the slice of get_suggestions
ScanSuggestions(s, env, bounds, up, cup) ==
    LET samples == ScanSamples(s, env, bounds, SuggestionGridSize, up)
        fit == SelectSeq(samples, LAMBDA r : Suitable(r.temperature_c))
        suggestions == SubSeq([k \in 1..Len(fit) |-> SuggestionRecord(fit[k], cup)],
                              1, Len(fit))
    IN  Take(SortDesc(suggestions, "cooling_potential"), 12)

\* get_hotspots without lines 109-110
GetHotspotsRescan(cache, s0, env, up) ==
    LET b == GetBounds(s0, env)
    IN  IF b.ret = None
        THEN [cache |-> cache, sat |-> b.sat, ret |-> <<>>, scanned |-> FALSE]
        ELSE LET hotspots == ScanHotspots(b.sat, env, The(b.ret), up)
             IN  [cache |-> Some(hotspots), sat |-> b.sat, ret |-> hotspots,
                  scanned |-> TRUE]

\* analysis.py:104-168
GetHotspots(cache, s0, env, up) ==
    IF cache # None
    THEN [cache |-> cache, sat |-> s0, ret |-> The(cache), scanned |-> FALSE]
    ELSE LET b == GetBounds(s0, env)
         IN  IF b.ret = None
             THEN [cache |-> cache, sat |-> b.sat, ret |-> <<>>, scanned |-> FALSE]
             ELSE LET hotspots == ScanHotspots(b.sat, env, The(b.ret), up)
                  IN  [cache |-> Some(hotspots), sat |-> b.sat, ret |-> hotspots,
                       scanned |-> TRUE]

\* analysis.py:267-331
GetSuggestions(cache, s0, env, up, cup) ==
    IF cache # None
    THEN [cache |-> cache, sat |-> s0, ret |-> The(cache), scanned |-> FALSE]
    ELSE LET b == GetBounds(s0, env)
         IN  IF b.ret = None
             THEN [cache |-> cache, sat |-> b.sat, ret |-> <<>>, scanned |-> FALSE]
             ELSE LET suggestions == ScanSuggestions(b.sat, env, The(b.ret), up, cup)
                  IN  [cache |-> Some(suggestions), sat |-> b.sat, ret |-> suggestions,
                       scanned |-> TRUE]

NotCaches == <<fvars, mvars, kvars, gvars, rvars, vvars>>

\* analysis_service.get_hotspots(); a call that scans leaves the sampler with
\* get_temperature_at as its last operation, a call that returns before the
\* loop after get_bounds with get_bounds, a memoized call does not touch it
GetHotspotsCall ==
    /\ \E r \in { GetHotspots(hotspots_cache, sat, Env, up) : up \in BOOLEAN } :
             /\ hotspots_cache' = r.cache
             /\ sat' = r.sat
             /\ a_ret' = r.ret
             /\ a_scanned' = r.scanned
             /\ s_op' = IF r.scanned THEN "get_temperature_at"
                        ELSE IF hotspots_cache = None THEN "get_bounds" ELSE s_op
             /\ s_ret' = IF r.scanned \/ hotspots_cache = None THEN None ELSE s_ret
    /\ a_op' = "get_hotspots"
    /\ UNCHANGED <<suggestions_cache, rasterio_available, tiff_state, tiff_file>>
    /\ UNCHANGED NotCaches

\* analysis_service.get_suggestions()
GetSuggestionsCall ==
    /\ \E r \in { GetSuggestions(suggestions_cache, sat, Env, up, cup) :
                        up \in BOOLEAN, cup \in BOOLEAN } :
             /\ suggestions_cache' = r.cache
             /\ sat' = r.sat
             /\ a_ret' = r.ret
             /\ a_scanned' = r.scanned
             /\ s_op' = IF r.scanned THEN "get_temperature_at"
                        ELSE IF suggestions_cache = None THEN "get_bounds" ELSE s_op
             /\ s_ret' = IF r.scanned \/ suggestions_cache = None THEN None ELSE s_ret
    /\ a_op' = "get_suggestions"
    /\ UNCHANGED <<hotspots_cache, rasterio_available, tiff_state, tiff_file>>
    /\ UNCHANGED NotCaches

\* the rasters the scans are run on: no sample in either band, samples on
\* both sides of every threshold, samples of medium priority only
ScanFiles == {FileNarrow, FileWide, FileCool}

\* a fresh process: AnalysisService() and SatelliteService() just constructed
InitCaches ==
    /\ hotspots_cache = None
    /\ suggestions_cache = None
    /\ a_op = "none"
    /\ a_ret = <<>>
    /\ a_scanned = FALSE
    /\ sat = SatNew
    /\ rasterio_available = TRUE
    /\ tiff_state \in TiffStates
    /\ tiff_file \in ScanFiles
    /\ s_op = "none"
    /\ s_ret = None
    /\ f_pc = "idle"
    /\ total_cost = Zero
    /\ co2_offset_kg = 0
    /\ remaining = Zero
    /\ funding_breakdown = <<>>
    /\ municipal_contribution = None
    /\ annual_payment = None
    /\ f_result = None
    /\ sim_pc = "idle"
    /\ sim_item = None
    /\ sim_i = 0
    /\ total_cooling = 0
    /\ tree_count = 0
    /\ last_impact = None
    /\ sim_result = None
    /\ c_raw = 0
    /\ c_celsius = None
    /\ g_interventions = <<>>
    /\ g_region = "vancouver"
    /\ g_result = None
    /\ r_kind = "get_hotspots"
    /\ r_round = [up |-> FALSE, cup |-> FALSE]
    /\ r_pc = [t \in Callers |-> "idle"]
    /\ r_local = [t \in Callers |-> <<>>]
    /\ r_ret = [t \in Callers |-> None]
    /\ v_cache = <<>>
    /\ v_pc = [t \in Callers |-> "idle"]
    /\ v_args = [t \in Callers |-> None]
    /\ v_ret = [t \in Callers |-> None]
    /\ v_queries = 0

NextCaches ==
    \/ GetHotspotsCall
    \/ GetSuggestionsCall
    \/ Load
    \/ FileChange

SpecCaches == InitCaches /\ [][NextCaches]_vars

(***************************************************************************)
(* Claims on the memoized scans (checked under SpecCaches).                *)
(***************************************************************************)

\* C11: a get_hotspots or get_suggestions call that completes a grid scan
\* stores the list it returns; once a list is stored no step changes it, and
\* every later call returns the stored list and leaves the sampler as it was
\* (no get_bounds, no get_temperature_at), whatever happened to the raster.
C11_CacheMemoized ==
    [][/\ (hotspots_cache # None => hotspots_cache' = hotspots_cache)
       /\ (suggestions_cache # None => suggestions_cache' = suggestions_cache)
       /\ (hotspots_cache # None /\ GetHotspotsCall) =>
              /\ a_ret' = The(hotspots_cache)
              /\ ~a_scanned'
              /\ UNCHANGED <<sat, s_op, s_ret>>
       /\ (suggestions_cache # None /\ GetSuggestionsCall) =>
              /\ a_ret' = The(suggestions_cache)
              /\ ~a_scanned'
              /\ UNCHANGED <<sat, s_op, s_ret>>
       /\ (a_scanned' /\ a_op' = "get_hotspots" /\ hotspots_cache = None) =>
              hotspots_cache' = Some(a_ret')
       /\ (a_scanned' /\ a_op' = "get_suggestions" /\ suggestions_cache = None) =>
              suggestions_cache' = Some(a_ret')
      ]_vars

\* get_hotspots answered from the list scanned on the 8-pixel raster although
\* the sampler has since been reloaded into synthetic mode
C11_MemoizedAfterReload ==
    /\ a_op = "get_hotspots"
    /\ ~a_scanned
    /\ hotspots_cache # None
    /\ a_ret = The(hotspots_cache)
    /\ Len(a_ret) = 15
    /\ a_ret[1].temperature_c = 523
    /\ s_op = "load"
    /\ sat.fallback_mode

C14_HotspotsAtLeast45 ==
    a_op = "get_hotspots" =>
        \A k \in 1..Len(a_ret) : a_ret[k].temperature_c >= 450

(***************************************************************************)
(* SatelliteService._convert_to_celsius as a function of the raw pixel     *)
(* value (satellite.py:169-184).                                           *)
(***************************************************************************)

\* the ends of the three ranges, in hundredths: -50, 80, 200, 400, 20000, 40000
RangeEnds == {-5000, 8000, 20000, 40000, 2000000, 4000000}

\* raw values at, next to and around every range end (whole units, so that the
\* division by 100 is exact), the middle of each range and of each gap, and a
\* nodata value
RawChoices ==
    {e + 100 * d : e \in RangeEnds, d \in -10..10}
        \cup {e + d : e \in {-5000, 8000, 20000, 40000}, d \in {-1, 1}}
        \cup {-999900, 0, 2500, 14000, 30000, 1000000, 3000000, 5000000}

NotConvert == <<fvars, svars, mvars, cvars, gvars, rvars, vvars>>

\* self._convert_to_celsius(raw_value)
ConvertCall ==
    /\ \E raw_value \in RawChoices :
         /\ c_raw' = raw_value
         /\ c_celsius' = Some(ConvertToCelsius(raw_value))
    /\ UNCHANGED NotConvert

InitConvert ==
    /\ c_raw = 0
    /\ c_celsius = None
    /\ sat = SatNew
    /\ rasterio_available = TRUE
    /\ tiff_state = "missing"
    /\ tiff_file = FileHot
    /\ s_op = "none"
    /\ s_ret = None
    /\ f_pc = "idle"
    /\ total_cost = Zero
    /\ co2_offset_kg = 0
    /\ remaining = Zero
    /\ funding_breakdown = <<>>
    /\ municipal_contribution = None
    /\ annual_payment = None
    /\ f_result = None
    /\ sim_pc = "idle"
    /\ sim_item = None
    /\ sim_i = 0
    /\ total_cooling = 0
    /\ tree_count = 0
    /\ last_impact = None
    /\ sim_result = None
    /\ hotspots_cache = None
    /\ suggestions_cache = None
    /\ a_op = "none"
    /\ a_ret = <<>>
    /\ a_scanned = FALSE
    /\ g_interventions = <<>>
    /\ g_region = "vancouver"
    /\ g_result = None
    /\ r_kind = "get_hotspots"
    /\ r_round = [up |-> FALSE, cup |-> FALSE]
    /\ r_pc = [t \in Callers |-> "idle"]
    /\ r_local = [t \in Callers |-> <<>>]
    /\ r_ret = [t \in Callers |-> None]
    /\ v_cache = <<>>
    /\ v_pc = [t \in Callers |-> "idle"]
    /\ v_args = [t \in Callers |-> None]
    /\ v_ret = [t \in Callers |-> None]
    /\ v_queries = 0

NextConvert == ConvertCall

SpecConvert == InitConvert /\ [][NextConvert]_vars

\* C17: _convert_to_celsius returns r for -50 < r < 80, r - 273.15 for
\* 200 < r < 400, r / 100 - 273.15 for 20000 < r < 40000, and r unchanged for
\* every other r; the range ends -50, 80, 200, 400, 20000 and 40000 belong to no
\* range and are returned unchanged.
C17_ConvertByStrictRange ==
    c_celsius # None =>
        /\ (-5000 < c_raw /\ c_raw < 8000) => The(c_celsius) = c_raw
        /\ (20000 < c_raw /\ c_raw < 40000) => The(c_celsius) = c_raw - 27315
        /\ (2000000 < c_raw /\ c_raw < 4000000) =>
               100 * (The(c_celsius) + 27315) = c_raw
        /\ (\/ c_raw <= -5000
            \/ 8000 <= c_raw /\ c_raw <= 20000
            \/ 40000 <= c_raw /\ c_raw <= 2000000
            \/ 4000000 <= c_raw) => The(c_celsius) = c_raw

\* 200 (Kelvin) is returned as 200
C17_EndPassedThrough == c_raw = 20000 /\ c_celsius = Some(20000)

\* C17 as the specification words it: the range ends are included in their
\* range, so 200 converts to -73.15 and 40000 to 126.85.
C17_ConvertByInclusiveRange ==
    c_celsius # None =>
        /\ (-5000 <= c_raw /\ c_raw <= 8000) => The(c_celsius) = c_raw
        /\ (20000 <= c_raw /\ c_raw <= 40000) => The(c_celsius) = c_raw - 27315
        /\ (2000000 <= c_raw /\ c_raw <= 4000000) =>
               100 * (The(c_celsius) + 27315) = c_raw
        /\ (\/ c_raw < -5000
            \/ 8000 < c_raw /\ c_raw < 20000
            \/ 40000 < c_raw /\ c_raw < 2000000
            \/ 4000000 < c_raw) => The(c_celsius) = c_raw

(***************************************************************************)
(* FundingService.get_realistic_costs (funding.py:74-145).  Amounts are in *)
(* cents; the regional unit costs are whole dollars and every factor has   *)
(* at most two decimals, so each quantity is a whole number of cents and   *)
(* round(x, 2) changes nothing.                                            *)
(***************************************************************************)
MaxCostItems == 3

\* funding.py:11-30; labor_multiplier in hundredths
REGIONAL_COSTS ==
    [vancouver |-> [tree |-> 450, cool_roof_sqm |-> 85, bio_swale |-> 1200,
                    labor_multiplier |-> 130],
     nyc |-> [tree |-> 550, cool_roof_sqm |-> 95, bio_swale |-> 1500,
              labor_multiplier |-> 150],
     default |-> [tree |-> 350, cool_roof_sqm |-> 75, bio_swale |-> 1000,
                  labor_multiplier |-> 100]]

\* the regions a caller passes: two known ones, the default and an unknown one
RegionChoices == {"vancouver", "nyc", "default", "toronto"}

\* the item dicts {type?, species?}: a key that is absent is <<>>
CostItemChoices ==
    { [type |-> ty[1], species |-> ty[2]] :
        ty \in { <<Some("tree"), Some("oak")>>, <<Some("tree"), Some("pine")>>,
                 <<Some("tree"), None>>, <<Some("tree"), Some("baobab")>>,
                 <<None, None>>, <<Some("cool_roof"), None>>,
                 <<Some("bio_swale"), None>>, <<Some("fountain"), None>> } }

\* the argument lists: every sequence of at most MaxCostItems items
CostLists == UNION { [1..n -> CostItemChoices] : n \in 0..MaxCostItems }

\* REGIONAL_COSTS[region], a KeyError for an unknown region being out of the
\* question here: the table without the fallback to "default"
RegionCostsStrict(region) ==
    IF region \in DOMAIN REGIONAL_COSTS THEN REGIONAL_COSTS[region]
    ELSE [tree |-> 0, cool_roof_sqm |-> 0, bio_swale |-> 0, labor_multiplier |-> 100]

\* funding.py:87: REGIONAL_COSTS.get(region, REGIONAL_COSTS["default"])
RegionCosts(region) ==
    IF region \in DOMAIN REGIONAL_COSTS THEN REGIONAL_COSTS[region]
    ELSE REGIONAL_COSTS["default"]

\* funding.py:97: item.get("type", "tree")
ItemType(item) == IF item.type = None THEN "tree" ELSE The(item.type)

\* funding.py:100-109: the cost one tree adds to tree_cost, in cents
TreeUnitCost(costs, item) ==
    LET species == IF item.species = None THEN "maple" ELSE The(item.species)
        base == costs.tree
    IN  IF species = "oak" THEN base * 130
        ELSE IF species = "pine" THEN base * 70
        ELSE base * 100

\* funding.py:96-120: the loop; acc holds the three costs and the three counts
RECURSIVE CostLoop(_, _, _, _)
CostLoop(costs, interventions, k, acc) ==
    IF k > Len(interventions) THEN acc
    ELSE LET item == interventions[k]
             itype == ItemType(item)
         IN  CostLoop(costs, interventions, k + 1,
               IF itype = "tree"
               THEN [acc EXCEPT !.tree_cost = @ + TreeUnitCost(costs, item),
                                !.tree_count = @ + 1]
               ELSE IF itype = "cool_roof"
               THEN [acc EXCEPT !.roof_cost = @ + costs.cool_roof_sqm * 200 * 100,
                                !.roof_count = @ + 1]
               ELSE IF itype = "bio_swale"
               THEN [acc EXCEPT !.swale_cost = @ + costs.bio_swale * 100,
                                !.swale_count = @ + 1]
               ELSE acc)

\* a permit for the recognised items only
PermitsRecognised(interventions) ==
    Len(SelectSeq(interventions,
                  LAMBDA item : ItemType(item) \in {"tree", "cool_roof", "bio_swale"}))
        * 150 * 100

\* funding.py:125: len(interventions) * 150
Permits(interventions) == Len(interventions) * 150 * 100

\* funding.py:74-145
GetRealisticCosts(interventions, region) ==
    LET costs == RegionCosts(region)
        acc == CostLoop(costs, interventions, 1,
                        [tree_cost |-> 0, tree_count |-> 0, roof_cost |-> 0,
                         roof_count |-> 0, swale_cost |-> 0, swale_count |-> 0])
        materials_total == acc.tree_cost + acc.roof_cost + acc.swale_cost
        labor == (materials_total * (costs.labor_multiplier - 100)) \div 100
        permits == Permits(interventions)
        design == (materials_total * 15) \div 100
        contingency == (materials_total * 10) \div 100
        total == materials_total + labor + permits + design + contingency
    IN  [region |-> region,
         itemized |-> [materials |-> materials_total, labor |-> labor,
                       permits |-> permits, design_engineering |-> design,
                       contingency |-> contingency],
         by_type |-> [trees |-> [count |-> acc.tree_count, cost |-> acc.tree_cost],
                      cool_roofs |-> [count |-> acc.roof_count, cost |-> acc.roof_cost],
                      bio_swales |-> [count |-> acc.swale_count, cost |-> acc.swale_cost]],
         total_cost |-> total]

NotCosts == <<fvars, svars, mvars, cvars, kvars, rvars, vvars>>

\* funding_service.get_realistic_costs(interventions, region)
GetRealisticCostsCall ==
    /\ g_result = None
    /\ g_result' = Some(GetRealisticCosts(g_interventions, g_region))
    /\ UNCHANGED <<g_interventions, g_region>>
    /\ UNCHANGED NotCosts

\* the arguments of the call about to be made
InitCosts ==
    /\ g_interventions \in CostLists
    /\ g_region \in RegionChoices
    /\ g_result = None
    /\ r_kind = "get_hotspots"
    /\ r_round = [up |-> FALSE, cup |-> FALSE]
    /\ r_pc = [t \in Callers |-> "idle"]
    /\ r_local = [t \in Callers |-> <<>>]
    /\ r_ret = [t \in Callers |-> None]
    /\ v_cache = <<>>
    /\ v_pc = [t \in Callers |-> "idle"]
    /\ v_args = [t \in Callers |-> None]
    /\ v_ret = [t \in Callers |-> None]
    /\ v_queries = 0
    /\ c_raw = 0
    /\ c_celsius = None
    /\ sat = SatNew
    /\ rasterio_available = TRUE
    /\ tiff_state = "missing"
    /\ tiff_file = FileHot
    /\ s_op = "none"
    /\ s_ret = None
    /\ f_pc = "idle"
    /\ total_cost = Zero
    /\ co2_offset_kg = 0
    /\ remaining = Zero
    /\ funding_breakdown = <<>>
    /\ municipal_contribution = None
    /\ annual_payment = None
    /\ f_result = None
    /\ sim_pc = "idle"
    /\ sim_item = None
    /\ sim_i = 0
    /\ total_cooling = 0
    /\ tree_count = 0
    /\ last_impact = None
    /\ sim_result = None
    /\ hotspots_cache = None
    /\ suggestions_cache = None
    /\ a_op = "none"
    /\ a_ret = <<>>
    /\ a_scanned = FALSE

NextCosts == GetRealisticCostsCall

SpecCosts == InitCosts /\ [][NextCosts]_vars

\* the unit cost of one item by the claim's table, in cents: the regional tree
\* cost x 1.3 for oak, x 0.7 for pine, x 1.0 otherwise; the per-sqm rate x 200
\* for a cool roof; the regional cost of a bio swale; nothing for another kind
C22_UnitCost(table, item) ==
    IF item.type \in {None, Some("tree")}
    THEN (IF item.species = Some("oak") THEN 130
          ELSE IF item.species = Some("pine") THEN 70 ELSE 100) * table.tree
    ELSE IF item.type = Some("cool_roof") THEN table.cool_roof_sqm * 200 * 100
    ELSE IF item.type = Some("bio_swale") THEN table.bio_swale * 100
    ELSE 0

RECURSIVE C22_Sum(_, _)
C22_Sum(table, items) ==
    IF items = <<>> THEN 0
    ELSE C22_UnitCost(table, Head(items)) + C22_Sum(table, Tail(items))

\* C22: for every list and region, materials is the sum of the unit costs,
\* labor = materials x (labor multiplier - 1), permits = 150 x the number of
\* items, design = 15% and contingency = 10% of materials, total_cost is the sum
\* of the five; an unknown region is priced with the default table and the
\* empty list yields zeros throughout.
C22_CostBreakdown ==
    g_result # None =>
        LET res == The(g_result)
            table == IF g_region = "vancouver" THEN REGIONAL_COSTS.vancouver
                     ELSE IF g_region = "nyc" THEN REGIONAL_COSTS.nyc
                     ELSE REGIONAL_COSTS.default
            materials == C22_Sum(table, g_interventions)
        IN  /\ res.itemized.materials = materials
            /\ 100 * res.itemized.labor = materials * (table.labor_multiplier - 100)
            /\ res.itemized.permits = 150 * 100 * Len(g_interventions)
            /\ 100 * res.itemized.design_engineering = 15 * materials
            /\ 100 * res.itemized.contingency = 10 * materials
            /\ res.total_cost = res.itemized.materials + res.itemized.labor
                   + res.itemized.permits + res.itemized.design_engineering
                   + res.itemized.contingency
            /\ g_interventions = <<>> =>
                   /\ res.total_cost = 0
                   /\ \A k \in DOMAIN res.itemized : res.itemized[k] = 0
                   /\ \A k \in DOMAIN res.by_type :
                          res.by_type[k].count = 0 /\ res.by_type[k].cost = 0

\* an oak, a cool roof and a bio swale in an unknown region, priced with the
\* default table: 455 + 15000 + 1000 of materials, no labor, 450 of permits
C22_UnknownRegionPriced ==
    /\ g_result # None
    /\ g_region = "toronto"
    /\ Len(g_interventions) = 3
    /\ The(g_result).itemized.materials = 1645500
    /\ The(g_result).itemized.labor = 0
    /\ The(g_result).itemized.permits = 45000
    /\ The(g_result).total_cost = 1645500 + 45000 + 246825 + 164550

\* C28: permits = 150 x len(interventions) for every list, items of an
\* unrecognised kind included, while the by_type counts cover the tree,
\* cool_roof and bio_swale items only: their sum is at most len(interventions),
\* with equality exactly when every item's kind is recognised, and an
\* unrecognised item adds nothing to materials.
C28_PermitsForEveryItem ==
    g_result # None =>
        LET res == The(g_result)
            counted == res.by_type.trees.count + res.by_type.cool_roofs.count
                           + res.by_type.bio_swales.count
            unknown == {k \in DOMAIN g_interventions :
                           g_interventions[k].type \notin
                               {None, Some("tree"), Some("cool_roof"), Some("bio_swale")}}
        IN  /\ res.itemized.permits = 150 * 100 * Len(g_interventions)
            /\ counted <= Len(g_interventions)
            /\ counted = Len(g_interventions) - Cardinality(unknown)
            /\ (counted = Len(g_interventions)) <=> (unknown = {})
            /\ res.itemized.materials =
                   res.by_type.trees.cost + res.by_type.cool_roofs.cost
                       + res.by_type.bio_swales.cost

\* a list of unrecognised items only: permits are charged, nothing else
C28_PermitsOnly ==
    /\ g_result # None
    /\ Len(g_interventions) = 2
    /\ \A k \in DOMAIN g_interventions : g_interventions[k].type = Some("fountain")
    /\ The(g_result).itemized.permits = 30000
    /\ The(g_result).itemized.materials = 0
    /\ The(g_result).total_cost = 30000


(***************************************************************************)
(* Two callers inside get_hotspots (or get_suggestions) at the same time   *)
(* (analysis.py:104-168, 267-331): the cache check, the scan and the cache *)
(* write of a call are separate steps, and load() and changes of the       *)
(* raster file may fall between them.                                      *)
(***************************************************************************)
RaceKinds == {"get_hotspots", "get_suggestions"}

\* the cache the method reads and writes
RaceCache == IF r_kind = "get_hotspots" THEN hotspots_cache ELSE suggestions_cache

\* analysis.py:113-165 (277-326): get_bounds, and unless it returns nothing the
\* loop, the sort and the slice
RaceScan(kind, s0, env, round) ==
    LET b == GetBounds(s0, env)
    IN  IF b.ret = None
        THEN [sat |-> b.sat, scanned |-> FALSE, list |-> <<>>]
        ELSE [sat |-> b.sat, scanned |-> TRUE,
              list |-> IF kind = "get_hotspots"
                       THEN ScanHotspots(b.sat, env, The(b.ret), round.up)
                       ELSE ScanSuggestions(b.sat, env, The(b.ret), round.up, round.cup)]

NotRace == <<fvars, mvars, kvars, gvars, vvars, a_op, a_ret, a_scanned>>

\* analysis.py:109-110 (273-274): caller t enters the method and tests the cache
CacheCheck(t) ==
    /\ r_pc[t] = "idle"
    /\ IF RaceCache # None
       THEN /\ r_pc' = [r_pc EXCEPT ![t] = "done"]
            /\ r_ret' = [r_ret EXCEPT ![t] = Some(The(RaceCache))]
       ELSE /\ r_pc' = [r_pc EXCEPT ![t] = "checked"]
            /\ r_ret' = r_ret
    /\ UNCHANGED <<r_kind, r_round, r_local, hotspots_cache, suggestions_cache, svars>>
    /\ UNCHANGED NotRace

\* analysis.py:113-165 (277-326): caller t, past the cache test, builds its list
Scan(t) ==
    /\ r_pc[t] = "checked"
    /\ \E r \in { RaceScan(r_kind, sat, Env, r_round) } :
         /\ sat' = r.sat
         /\ s_op' = IF r.scanned THEN "get_temperature_at" ELSE "get_bounds"
         /\ r_local' = [r_local EXCEPT ![t] = r.list]
         /\ r_pc' = [r_pc EXCEPT ![t] = IF r.scanned THEN "scanned" ELSE "done"]
         /\ r_ret' = IF r.scanned THEN r_ret ELSE [r_ret EXCEPT ![t] = Some(<<>>)]
    /\ s_ret' = None
    /\ UNCHANGED <<r_kind, r_round, hotspots_cache, suggestions_cache,
                   rasterio_available, tiff_state, tiff_file>>
    /\ UNCHANGED NotRace

\* analysis.py:167-168 (330-331): caller t stores its list and returns it
CacheWrite(t) ==
    /\ r_pc[t] = "scanned"
    /\ IF r_kind = "get_hotspots"
       THEN /\ hotspots_cache' = Some(r_local[t])
            /\ UNCHANGED suggestions_cache
       ELSE /\ suggestions_cache' = Some(r_local[t])
            /\ UNCHANGED hotspots_cache
    /\ r_ret' = [r_ret EXCEPT ![t] = Some(r_local[t])]
    /\ r_pc' = [r_pc EXCEPT ![t] = "done"]
    /\ UNCHANGED <<r_kind, r_round, r_local, svars>>
    /\ UNCHANGED NotRace

\* a fresh process and two callers about to make the first calls
InitRace ==
    /\ r_kind \in RaceKinds
    /\ r_round \in {[up |-> FALSE, cup |-> FALSE], [up |-> TRUE, cup |-> TRUE]}
    /\ r_pc = [t \in Callers |-> "idle"]
    /\ r_local = [t \in Callers |-> <<>>]
    /\ r_ret = [t \in Callers |-> None]
    /\ hotspots_cache = None
    /\ suggestions_cache = None
    /\ a_op = "none"
    /\ a_ret = <<>>
    /\ a_scanned = FALSE
    /\ sat = SatNew
    /\ rasterio_available = TRUE
    /\ tiff_state \in {"ok", "missing"}
    /\ tiff_file \in {FileWide, FileCool}
    /\ s_op = "none"
    /\ s_ret = None
    /\ f_pc = "idle"
    /\ total_cost = Zero
    /\ co2_offset_kg = 0
    /\ remaining = Zero
    /\ funding_breakdown = <<>>
    /\ municipal_contribution = None
    /\ annual_payment = None
    /\ f_result = None
    /\ sim_pc = "idle"
    /\ sim_item = None
    /\ sim_i = 0
    /\ total_cooling = 0
    /\ tree_count = 0
    /\ last_impact = None
    /\ sim_result = None
    /\ c_raw = 0
    /\ c_celsius = None
    /\ g_interventions = <<>>
    /\ g_region = "vancouver"
    /\ g_result = None
    /\ v_cache = <<>>
    /\ v_pc = [t \in Callers |-> "idle"]
    /\ v_args = [t \in Callers |-> None]
    /\ v_ret = [t \in Callers |-> None]
    /\ v_queries = 0

NextRace ==
    \/ \E t \in Callers : CacheCheck(t)
    \/ \E t \in Callers : Scan(t)
    \/ \E t \in Callers : CacheWrite(t)
    \/ Load
    \/ FileChange

SpecRace == InitRace /\ [][NextRace]_vars

(***************************************************************************)
(* Claims on concurrent first calls (checked under SpecRace).              *)
(***************************************************************************)
\* the key the method sorts by
RaceKey == IF r_kind = "get_hotspots" THEN "temperature_c" ELSE "cooling_potential"

\* the length the method cuts to
RaceLimit == IF r_kind = "get_hotspots" THEN 15 ELSE 12

\* a complete scan result: cut to the limit and sorted, largest key first
CompleteResult(list) ==
    /\ Len(list) <= RaceLimit
    /\ \A k \in 1..(Len(list) - 1) : list[k][RaceKey] >= list[k + 1][RaceKey]

\* C24: a caller that found the cache empty scans and writes the cache, also
\* when the other caller filled the cache in the meantime; all callers are
\* returned equal lists; the cache is empty or holds the complete list of one
\* of the callers.
C24_RacingCallsAgree ==
    [][ /\ \A t \in Callers :
             r_pc[t] = "checked" => r_pc'[t] \in {"checked", "scanned"}
        /\ \A t \in Callers :
             r_pc[t] = "scanned" /\ r_pc'[t] # "scanned" =>
                 RaceCache' = Some(r_local[t])
        /\ \A t, u \in Callers :
             r_ret'[t] # None /\ r_ret'[u] # None => r_ret'[t] = r_ret'[u]
        /\ RaceCache' # None =>
             /\ CompleteResult(The(RaceCache'))
             /\ \E t \in Callers :
                  r_pc'[t] = "done" /\ The(RaceCache') = r_local'[t]
      ]_vars

\* the same without the agreement of the returned lists
C24_RacingCallsBothScan ==
    [][ /\ \A t \in Callers :
             r_pc[t] = "checked" => r_pc'[t] \in {"checked", "scanned"}
        /\ \A t \in Callers :
             r_pc[t] = "scanned" /\ r_pc'[t] # "scanned" =>
                 RaceCache' = Some(r_local[t])
        /\ RaceCache' # None =>
             /\ CompleteResult(The(RaceCache'))
             /\ \E t \in Callers :
                  r_pc'[t] = "done" /\ The(RaceCache') = r_local'[t]
      ]_vars

\* both callers scanned, and the second write replaced the first
C24_BothScanned ==
    /\ \A t \in Callers : r_pc[t] = "done" /\ r_ret[t] = Some(r_local[t])
    /\ RaceCache # None
    /\ Len(The(RaceCache)) > 0

(***************************************************************************)
(* ValidationService.validate_intervention (validation.py:187-212) and the *)
(* three lookups it awaits (21-185).  A call is suspended while its        *)
(* request to the Overpass API is outstanding; other calls run meanwhile.  *)
(* Latitudes and longitudes are in units of 0.00001 degree.                *)
(***************************************************************************)
MaxQueries == 2

\* the kinds a request may name (controllers/validation.py:13-16: any string)
KindChoices == {"tree", "cool_roof", "bio_swale", "pond"}

\* two latitudes 3 m apart that share a cache key, and one that does not
LatChoices == {4928271, 4928274, 4928280}
LonChoices == {-12312070}

\* what a lookup can meet: no element, an element tagged highway, building or
\* leisure=park, or an exception with the given str()
Outcomes == {[elements |-> "none"], [elements |-> "highway"],
             [elements |-> "building"], [elements |-> "park"],
             [raised |-> "ReadTimeout"], [raised |-> ""]}

\* validation.py:195: round(x, 4)
Round4(x) == RoundDiv(x, 10, FALSE)

\* validation.py:195
CacheKey(intervention_type, lat, lon) == <<intervention_type, Round4(lat), Round4(lon)>>

Result(valid, reason, detail, confidence, error) ==
    [valid |-> valid, reason |-> reason, detail |-> detail,
     confidence |-> confidence, error |-> error]

\* validation.py:76-85, 127-135, 177-185: the except branches
Unavailable(detail, e) ==
    Result(TRUE, "Validation unavailable", Some(detail), Some("none"), Some(e))

\* validation.py:21-85
ValidateTreeLocation(o) ==
    IF "raised" \in DOMAIN o THEN Unavailable("unknown", o.raised)
    ELSE IF o.elements = "none"
    THEN Result(TRUE, "Suitable location for planting", Some("unknown"), Some("medium"), None)
    ELSE IF o.elements = "highway"
    THEN Result(FALSE, "Cannot plant on roads or pavement", Some("pavement"), Some("high"), None)
    ELSE IF o.elements = "building"
    THEN Result(FALSE, "Cannot plant on buildings", Some("building"), Some("high"), None)
    ELSE Result(TRUE, "Valid planting location", Some("park"), Some("high"), None)

\* validation.py:87-135: the query selects the elements tagged building
ValidateCoolRoofLocation(o) ==
    IF "raised" \in DOMAIN o THEN Unavailable("unknown", o.raised)
    ELSE IF o.elements = "building"
    THEN Result(TRUE, "Building found", Some("yes"), Some("high"), None)
    ELSE Result(FALSE, "No building at this location", None, Some("high"), None)

\* validation.py:137-185: the query selects highways and parking
ValidateBioswaleLocation(o) ==
    IF "raised" \in DOMAIN o THEN Unavailable("unknown", o.raised)
    ELSE IF o.elements = "highway"
    THEN Result(TRUE, "Good location near highway", Some("highway"), Some("high"), None)
    ELSE Result(TRUE, "No roads nearby", None, Some("medium"), None)

\* validation.py:206
UnknownType == Result(FALSE, "Unknown intervention type", None, None, None)

\* validation.py:199-204: the kinds with a lookup
HasLookup(intervention_type) == intervention_type \in {"tree", "cool_roof", "bio_swale"}

Lookup(intervention_type, o) ==
    IF intervention_type = "tree" THEN ValidateTreeLocation(o)
    ELSE IF intervention_type = "cool_roof" THEN ValidateCoolRoofLocation(o)
    ELSE ValidateBioswaleLocation(o)

\* validation.py:209 as the comment above it words it: a result with an error
\* key is not stored
FreeOfErrorKey(result) == result.error = None

\* validation.py:209: "not result.get('error')" - no error key, or an empty one
FreeOfError(result) == result.error = None \/ The(result.error) = ""

\* self.cache[cache_key] = result
Put(cache, key, result) ==
    [k \in DOMAIN cache \cup {key} |-> IF k = key THEN result ELSE cache[k]]

\* validation.py:208-210 with a store that keeps the entry a key already has
StoreOnce(cache, key, result) ==
    IF FreeOfError(result) /\ key \notin DOMAIN cache THEN Put(cache, key, result) ELSE cache

\* validation.py:208-210
Store(cache, key, result) ==
    IF FreeOfError(result) THEN Put(cache, key, result) ELSE cache

KeyOf(args) == CacheKey(args.intervention_type, args.lat, args.lon)

NotValidation == <<fvars, svars, mvars, cvars, kvars, gvars, rvars>>

\* validation.py:187-206: call t starts and runs up to its first suspension: it
\* returns the stored result, or sends its request and waits for the answer,
\* or (no lookup for the kind) stores and returns the fixed answer
ValidateIntervention(t) ==
    /\ v_pc[t] \in {"idle", "done"}
    /\ v_queries < MaxQueries
    /\ \E intervention_type \in KindChoices, lat \in LatChoices, lon \in LonChoices :
         LET args == [intervention_type |-> intervention_type, lat |-> lat, lon |-> lon]
             cache_key == KeyOf(args)
         IN  /\ v_args' = [v_args EXCEPT ![t] = Some(args)]
             /\ IF cache_key \in DOMAIN v_cache
                THEN /\ v_ret' = [v_ret EXCEPT ![t] = Some(v_cache[cache_key])]
                     /\ v_pc' = [v_pc EXCEPT ![t] = "done"]
                     /\ UNCHANGED <<v_cache, v_queries>>
                ELSE IF HasLookup(intervention_type)
                THEN /\ v_ret' = [v_ret EXCEPT ![t] = None]
                     /\ v_pc' = [v_pc EXCEPT ![t] = "awaiting"]
                     /\ v_queries' = v_queries + 1
                     /\ UNCHANGED v_cache
                ELSE /\ v_cache' = Store(v_cache, cache_key, UnknownType)
                     /\ v_ret' = [v_ret EXCEPT ![t] = Some(UnknownType)]
                     /\ v_pc' = [v_pc EXCEPT ![t] = "done"]
                     /\ UNCHANGED v_queries
    /\ UNCHANGED NotValidation

\* validation.py:200-212: the answer to call t's request arrives (or the
\* request fails); the call resumes, stores the result unless it has an error,
\* and returns it
Respond(t) ==
    /\ v_pc[t] = "awaiting"
    /\ \E o \in Outcomes :
         LET args == The(v_args[t])
             result == Lookup(args.intervention_type, o)
         IN  /\ v_cache' = Store(v_cache, KeyOf(args), result)
             /\ v_ret' = [v_ret EXCEPT ![t] = Some(result)]
    /\ v_pc' = [v_pc EXCEPT ![t] = "done"]
    /\ UNCHANGED <<v_args, v_queries>>
    /\ UNCHANGED NotValidation

\* validation.py:18-19, 216: a fresh ValidationService
InitValidation ==
    /\ v_cache = <<>>
    /\ v_pc = [t \in Callers |-> "idle"]
    /\ v_args = [t \in Callers |-> None]
    /\ v_ret = [t \in Callers |-> None]
    /\ v_queries = 0
    /\ r_kind = "get_hotspots"
    /\ r_round = [up |-> FALSE, cup |-> FALSE]
    /\ r_pc = [t \in Callers |-> "idle"]
    /\ r_local = [t \in Callers |-> <<>>]
    /\ r_ret = [t \in Callers |-> None]
    /\ hotspots_cache = None
    /\ suggestions_cache = None
    /\ a_op = "none"
    /\ a_ret = <<>>
    /\ a_scanned = FALSE
    /\ sat = SatNew
    /\ rasterio_available = TRUE
    /\ tiff_state = "ok"
    /\ tiff_file = FileHot
    /\ s_op = "none"
    /\ s_ret = None
    /\ f_pc = "idle"
    /\ total_cost = Zero
    /\ co2_offset_kg = 0
    /\ remaining = Zero
    /\ funding_breakdown = <<>>
    /\ municipal_contribution = None
    /\ annual_payment = None
    /\ f_result = None
    /\ sim_pc = "idle"
    /\ sim_item = None
    /\ sim_i = 0
    /\ total_cooling = 0
    /\ tree_count = 0
    /\ last_impact = None
    /\ sim_result = None
    /\ c_raw = 0
    /\ c_celsius = None
    /\ g_interventions = <<>>
    /\ g_region = "vancouver"
    /\ g_result = None

NextValidation ==
    \/ \E t \in Callers : ValidateIntervention(t)
    \/ \E t \in Callers : Respond(t)

SpecValidation == InitValidation /\ [][NextValidation]_vars

(***************************************************************************)
(* Claims on the validation cache (checked under SpecValidation).          *)
(***************************************************************************)
\* call t starts in this step
CallStep(t) ==
    /\ v_pc[t] # "awaiting"
    /\ <<v_pc[t], v_args[t], v_ret[t]>>' # <<v_pc[t], v_args[t], v_ret[t]>>

\* call t resumes and returns in this step
ResumeStep(t) == v_pc[t] = "awaiting" /\ v_pc'[t] = "done"

\* C29: no stored result carries an error: a call that resumes with a result
\* carrying an error leaves the cache as it is, so the next call for the key
\* sends a request again; a call whose key has a stored result returns it and
\* sends no request.
C29_ErrorsNotCached ==
    [][ /\ \A k \in DOMAIN v_cache' : v_cache'[k].error = None
        /\ \A t \in Callers :
             ResumeStep(t) /\ The(v_ret'[t]).error # None => v_cache' = v_cache
        /\ \A t \in Callers :
             CallStep(t) =>
                 LET args == The(v_args'[t])
                     key == KeyOf(args)
                 IN  IF key \in DOMAIN v_cache
                     THEN /\ v_ret'[t] = Some(v_cache[key])
                          /\ v_queries' = v_queries
                          /\ v_cache' = v_cache
                     ELSE HasLookup(args.intervention_type) =>
                              /\ v_pc'[t] = "awaiting"
                              /\ v_queries' = v_queries + 1
      ]_vars

\* the same, where an error is a non-empty error message
C29_ErrorMessagesNotCached ==
    [][ /\ \A k \in DOMAIN v_cache' : FreeOfError(v_cache'[k])
        /\ \A t \in Callers :
             ResumeStep(t) /\ ~FreeOfError(The(v_ret'[t])) => v_cache' = v_cache
        /\ \A t \in Callers :
             CallStep(t) =>
                 LET args == The(v_args'[t])
                     key == KeyOf(args)
                 IN  IF key \in DOMAIN v_cache
                     THEN /\ v_ret'[t] = Some(v_cache[key])
                          /\ v_queries' = v_queries
                          /\ v_cache' = v_cache
                     ELSE HasLookup(args.intervention_type) =>
                              /\ v_pc'[t] = "awaiting"
                              /\ v_queries' = v_queries + 1
      ]_vars

\* a failed lookup with an empty message is stored and returned to the next call
C29_FailureStored ==
    \E t \in Callers :
        /\ v_pc[t] = "done"
        /\ v_ret[t] # None
        /\ The(v_ret[t]).error = Some("")
        /\ v_queries = 1
        /\ KeyOf(The(v_args[t])) \in DOMAIN v_cache

\* C30: the entry of a key that holds an error-free result never changes, also
\* while calls for the key are suspended at their lookup.
C30_EntryNeverChanges ==
    [][ \A k \in DOMAIN v_cache :
            v_cache[k].error = None =>
                k \in DOMAIN v_cache' /\ v_cache'[k] = v_cache[k]
      ]_vars

\* an entry changes only when a call that was suspended at its lookup resumes
C30_OnlyResumedCallsReplace ==
    [][ \A k \in DOMAIN v_cache :
            \/ k \in DOMAIN v_cache' /\ v_cache'[k] = v_cache[k]
            \/ \E t \in Callers : ResumeStep(t) /\ KeyOf(The(v_args[t])) = k
      ]_vars
=============================================================================
